---- MODULE Spec2Model ----
(***************************************************************************)
(* Model of the agent orchestration runtime: Runner.run and the helpers    *)
(* it drives (guardrail pipelines, runSingleTurn, processModelResponse,    *)
(* executeToolCalls, getHandoffAgent).                                     *)
(*                                                                         *)
(* Strings are sequences of tokens, so that prefix tests, substring and    *)
(* concatenation are computed and not assumed.                             *)
(***************************************************************************)
EXTENDS Integers, Sequences, FiniteSets, TLC

(***************************************************************************)
(* Bounds of the model.                                                    *)
(***************************************************************************)
MaxTurnsBound == 2      \* options.maxTurns ranges over -1..MaxTurnsBound
MaxParts == 2           \* parts of one model response
MaxToolCalls == 2       \* ordinary tool calls the model requests in one run
MaxToolFailures == 1    \* tool executions or tool hooks that throw in one run

(***************************************************************************)
(* Generic helpers.                                                        *)
(***************************************************************************)
RECURSIVE Flatten(_)
Flatten(ss) == IF ss = <<>> THEN <<>> ELSE Head(ss) \o Flatten(Tail(ss))

RECURSIVE MapSeqs(_, _)
MapSeqs(n, S) ==
  IF n = 0 THEN {<<>>}
  ELSE LET shorter == MapSeqs(n - 1, S)
       IN shorter \cup {Append(s, x) : s \in {t \in shorter : Len(t) = n - 1}, x \in S}

(***************************************************************************)
(* Strings.                                                                *)
(***************************************************************************)
HandoffPrefix == <<"handoff_to_">>

StartsWith(str, prefix) ==
  /\ Len(str) >= Len(prefix)
  /\ SubSeq(str, 1, Len(prefix)) = prefix

Substring(str, from) == SubSeq(str, from + 1, Len(str))

RECURSIVE TrimStart(_)
TrimStart(str) ==
  IF str # <<>> /\ Head(str) = " " THEN TrimStart(Tail(str)) ELSE str

RECURSIVE TrimEnd(_)
TrimEnd(str) ==
  IF str # <<>> /\ str[Len(str)] = " " THEN TrimEnd(SubSeq(str, 1, Len(str) - 1)) ELSE str

Trim_None(str) == str

Trim(str) == TrimEnd(TrimStart(str))

(***************************************************************************)
(* Descriptors used by the runs: three agents, their tools, handoffs and   *)
(* guardrails, and the run configuration.                                  *)
(***************************************************************************)
Tool(n, show) == [name |-> n, showInThread |-> show]

AgentIds == {"A", "B", "C"}

\* the agents a caller starts a run with; B is reached through a handoff
StartingAgents == {"A", "C"}

Agent ==
  [A |-> [name |-> <<"A">>,
          hasSystemPrompt |-> TRUE,
          tools |-> <<Tool(<<"t1">>, TRUE), Tool(<<"t2">>, FALSE),
                      Tool(<<"handoff_to_", "A">>, TRUE)>>,
          handoffs |-> <<"B", "C">>,
          handoffFilters |-> <<"none", "false">>,
          inputGuardrails |-> <<"inA">>,
          outputGuardrails |-> <<>>,
          injectMessages |-> <<[role |-> "user", parts |-> <<[text |-> <<"ctxA">>]>>]>>],
   B |-> [name |-> <<"B">>,
          hasSystemPrompt |-> FALSE,
          tools |-> <<Tool(<<"t2">>, FALSE)>>,
          handoffs |-> <<"A">>,
          handoffFilters |-> <<"true">>,
          inputGuardrails |-> <<"inB">>,
          outputGuardrails |-> <<"outB">>,
          injectMessages |-> <<>>],
   C |-> [name |-> <<"C">>,
          hasSystemPrompt |-> TRUE,
          tools |-> <<>>,
          handoffs |-> <<>>,
          handoffFilters |-> <<>>,
          inputGuardrails |-> <<>>,
          outputGuardrails |-> <<>>,
          injectMessages |-> <<>>]]

RunConfig == [inputGuardrails |-> <<"inRC">>, outputGuardrails |-> <<"outRC">>]

AllHooks == {"onAgentStart", "onToolStart", "onToolEnd"}

CallerContext ==
  [messages |-> <<[role |-> "user", parts |-> <<[text |-> <<"q0">>]>>]>>,
   originalQuery |-> <<"q">>,
   visitedNodes |-> <<"A">>,
   state |-> [k |-> "v"]]

Inputs ==
  {[kind |-> "list",
    value |-> <<[role |-> "user", parts |-> <<[text |-> <<"q1">>]>>],
                [role |-> "model", parts |-> <<[text |-> <<"a1">>]>>]>>]}

(***************************************************************************)
(* What the content generation service may answer: a list of at most       *)
(* MaxParts parts, each a text fragment or a function call, or something   *)
(* that is not a list at all.                                              *)
(***************************************************************************)
Reasons == {"needs B"}

TextPart(t) == [kind |-> "text", text |-> t]
CallPart(n, a) == [kind |-> "functionCall", name |-> n, args |-> a]

PartValues ==
  {TextPart(<<"x">>), TextPart(<<" ">>)}
  \cup {CallPart(n, [q |-> "v"]) : n \in {<<"t1">>, <<"t2">>}}
  \cup {CallPart(HandoffPrefix \o <<a>>, [reason |-> r]) :
           a \in {"A", "B", "C"}, r \in Reasons}

NotAList == [present |-> TRUE, kind |-> "notAList", parts |-> <<>>]
PartList(ps) == [present |-> TRUE, kind |-> "list", parts |-> ps]

ModelResponses == {PartList(ps) : ps \in MapSeqs(MaxParts, PartValues)} \cup {NotAList}

(***************************************************************************)
(* Values of the run.                                                      *)
(***************************************************************************)
NoOutcome == [type |-> "none"]
MaxTurnsExceeded(n) == [type |-> "MaxTurnsExceeded", maxTurns |-> n]
GuardrailTripwireTriggered(g) == [type |-> "GuardrailTripwireTriggered", guardrail |-> g]
ErrorOf(msg) == [type |-> "Error", message |-> msg]
Resolved(r) == [type |-> "resolved", result |-> r]

NullResult == [null |-> TRUE]
OkResult(n) == [error |-> FALSE, value |-> <<"result of">> \o n]
ErrorResult(msg) == [error |-> TRUE, message |-> msg]
ToolNotFoundMessage(n) == <<"Tool ">> \o n \o <<" not found">>

NoHandoff == [present |-> FALSE]
NoStep == [type |-> "none"]
NoResponse == [present |-> FALSE]
NoRequest == [present |-> FALSE]

VARIABLES
  startingAgent,            \* run(startingAgent, ...)
  input,                    \* the caller's input
  maxTurns,                 \* options.maxTurns
  hooks,                    \* the hooks the caller supplied
  context,                  \* options.context, the caller's RunContext
  pc,                       \* position of the run
  currentTurn,
  originalInput,
  generatedItems,
  returnItems,
  currentAgent,
  shouldRunAgentStartHooks,
  guardrailPromises,        \* the validations of the running pipeline
  guardrailIdx,             \* the promise the pipeline's loop awaits
  request,                  \* the arguments of the generateContent call
  modelResponse,            \* runSingleTurn's modelResponse
  processedResponse,        \* runSingleTurn's processedResponse
  toolIdx,                  \* executeToolCalls: index of the next call
  results,                  \* executeToolCalls: results so far
  nextStep,                 \* turnResult.nextStep
  outcome,                  \* how run() settled
  calls,                    \* log of the calls made to collaborators
  parked,                   \* a second run() of the same call, suspended at an await
  active,                   \* which of the two runs the other variables belong to
  query,                    \* the chat surface: state.assistant.query
  isQuerying,               \* the chat surface: state.assistant.isQuerying
  thread,                   \* the chat surface: state.assistant.thread.messages
  chatPc                    \* the chat surface: position of the query's processing

vars == <<startingAgent, input, maxTurns, hooks, context, pc, currentTurn, originalInput,
          generatedItems, returnItems, currentAgent, shouldRunAgentStartHooks,
          guardrailPromises, guardrailIdx, request, modelResponse, processedResponse,
          toolIdx, results, nextStep, outcome, calls, parked, active,
          query, isQuerying, thread, chatPc>>

callerVars == <<startingAgent, input, maxTurns, hooks, context>>

otherRunVars == <<parked, active>>

chatVars == <<query, isQuerying, thread, chatPc>>

runVars == <<pc, currentTurn, originalInput, generatedItems, returnItems, currentAgent,
             shouldRunAgentStartHooks, guardrailPromises, guardrailIdx, request,
             modelResponse, processedResponse, toolIdx, results, nextStep, outcome, calls>>

\* no chat surface: run() is called directly
NoChat ==
  /\ query = <<>>
  /\ isQuerying = FALSE
  /\ thread = <<>>
  /\ chatPc = "idle"

NoOtherRun == [present |-> FALSE]

Call(op, what) == [op |-> op, what |-> what, threw |-> FALSE]
Thrown(op, what) == [op |-> op, what |-> what, threw |-> TRUE]

(***************************************************************************)
(* Runner.run: construction.                                               *)
(***************************************************************************)
WrapInput(in) ==
  IF in.kind = "string"
  THEN <<[role |-> "user", parts |-> <<in.value>>]>>
  ELSE in.value

\* the locals of run() when the call begins
RunStart ==
  /\ pc = "loop"
  /\ currentTurn = 0
  /\ originalInput = WrapInput(input)
  /\ generatedItems = <<>>
  /\ returnItems = <<>>
  /\ currentAgent = startingAgent
  /\ shouldRunAgentStartHooks = TRUE
  /\ guardrailPromises = <<>>
  /\ guardrailIdx = 0
  /\ request = NoRequest
  /\ modelResponse = NoResponse
  /\ processedResponse = NoResponse
  /\ toolIdx = 0
  /\ results = <<>>
  /\ nextStep = NoStep
  /\ outcome = NoOutcome
  /\ calls = <<>>

Init ==
  /\ startingAgent \in StartingAgents
  /\ input \in Inputs
  /\ maxTurns \in (-1)..MaxTurnsBound
  /\ hooks \in {{}, AllHooks}
  /\ context = CallerContext
  /\ RunStart
  /\ parked = NoOtherRun
  /\ active = 1
  /\ NoChat

(***************************************************************************)
(* Failure of the run: the catch block of Runner.run.                      *)
(***************************************************************************)
RunCatch_Unwrapped(error) == error

RunCatch(error) ==
  IF error.type \in {"GuardrailTripwireTriggered", "MaxTurnsExceeded"}
  THEN error
  ELSE ErrorOf(<<"Error running agent: ">> \o error.message)

Reject(error) ==
  /\ pc' = "done"
  /\ outcome' = RunCatch(error)

(***************************************************************************)
(* Guardrail pipelines.                                                    *)
(***************************************************************************)
StartValidations(gs) == [i \in 1..Len(gs) |-> [name |-> gs[i], state |-> "pending"]]

ValidateCalls(gs) == [i \in 1..Len(gs) |-> Call("validate", <<gs[i]>>)]

InputGuardrailsOf_ConfigFirst(a) == RunConfig.inputGuardrails \o Agent[a].inputGuardrails

InputGuardrailsOf_OwnOnly(a) == Agent[a].inputGuardrails

InputGuardrailsOf(a) == Agent[a].inputGuardrails \o RunConfig.inputGuardrails

OutputGuardrailsOf_OwnOnly(a) == Agent[a].outputGuardrails

OutputGuardrailsOf(a) == Agent[a].outputGuardrails \o RunConfig.outputGuardrails

InputTripwireTriggered_FailOpen(p) == FALSE

OutputTripwireTriggered_FailOpen(p) == FALSE

InputTripwireTriggered_FailClosed(p) == p.state # "pass"

\* result.output.tripwireTriggered, as each pipeline reads it
InputTripwireTriggered(p) == p.state = "trip"

OutputTripwireTriggered(p) == p.state = "trip"

\* a validation of the running pipeline settles
GuardrailSettles(i, r) ==
  /\ pc \in {"inputGuardrails", "outputGuardrails"}
  /\ i \in 1..Len(guardrailPromises)
  /\ guardrailPromises[i].state = "pending"
  /\ guardrailPromises' = [guardrailPromises EXCEPT ![i].state = r]
  /\ UNCHANGED <<callerVars, otherRunVars, chatVars,
                 pc, currentTurn, originalInput, generatedItems,
                 returnItems, currentAgent, shouldRunAgentStartHooks, guardrailIdx,
                 request, modelResponse, processedResponse, toolIdx, results, nextStep, outcome,
                 calls>>

EnterSingleTurn(log) ==
  /\ pc' = "agentStart"
  /\ calls' = Append(log, Call("runSingleTurn", Agent[currentAgent].name))

\* runInputGuardrails: one iteration of the loop over the promises
AwaitInputGuardrail ==
  /\ pc = "inputGuardrails"
  /\ guardrailPromises[guardrailIdx].state # "pending"
  /\ IF InputTripwireTriggered(guardrailPromises[guardrailIdx])
     THEN /\ Reject(GuardrailTripwireTriggered(guardrailPromises[guardrailIdx].name))
          /\ UNCHANGED <<guardrailPromises, guardrailIdx, calls>>
     ELSE IF guardrailIdx < Len(guardrailPromises)
     THEN /\ guardrailIdx' = guardrailIdx + 1
          /\ UNCHANGED <<pc, outcome, guardrailPromises, calls>>
     ELSE /\ EnterSingleTurn(calls)
          /\ guardrailPromises' = <<>>
          /\ guardrailIdx' = 0
          /\ UNCHANGED outcome
  /\ UNCHANGED <<callerVars, otherRunVars, chatVars,
                 currentTurn, originalInput, generatedItems, returnItems,
                 currentAgent, shouldRunAgentStartHooks, request, modelResponse,
                 processedResponse,
                 toolIdx, results, nextStep>>

(***************************************************************************)
(* Runner.run: the head of the while loop.                                 *)
(***************************************************************************)
LoopGuard_OffByOne(turn, max) == turn <= max

LoopGuard_AtLeastOnce(turn, max) == turn < max \/ turn = 0

LoopGuard(turn, max) == turn < max

LoopTop ==
  /\ pc = "loop"
  /\ IF LoopGuard(currentTurn, maxTurns)
     THEN /\ currentTurn' = currentTurn + 1
          /\ modelResponse' = NoResponse
          /\ processedResponse' = NoResponse
          /\ request' = NoRequest
          /\ IF currentTurn + 1 = 1 /\ InputGuardrailsOf(startingAgent) # <<>>
             THEN /\ pc' = "inputGuardrails"
                  /\ guardrailPromises' = StartValidations(InputGuardrailsOf(startingAgent))
                  /\ guardrailIdx' = 1
                  /\ calls' = calls \o ValidateCalls(InputGuardrailsOf(startingAgent))
             ELSE /\ EnterSingleTurn(calls)
                  /\ UNCHANGED <<guardrailPromises, guardrailIdx>>
          /\ UNCHANGED outcome
     ELSE /\ Reject(MaxTurnsExceeded(maxTurns))
          /\ UNCHANGED <<currentTurn, modelResponse, processedResponse, request,
                         guardrailPromises, guardrailIdx, calls>>
  /\ UNCHANGED <<callerVars, otherRunVars, chatVars,
                 originalInput, generatedItems, returnItems, currentAgent,
                 shouldRunAgentStartHooks, toolIdx, results, nextStep>>

(***************************************************************************)
(* runSingleTurn: the agent start hook, the system prompt and the prompt.  *)
(***************************************************************************)
AgentStartHook(o) ==
  /\ pc = "agentStart"
  /\ IF shouldRunAgentStartHooks /\ "onAgentStart" \in hooks
     THEN /\ o \in {"ok", "throws"}
          /\ calls' = Append(calls, IF o = "ok"
                                    THEN Call("onAgentStart", Agent[currentAgent].name)
                                    ELSE Thrown("onAgentStart", Agent[currentAgent].name))
          /\ IF o = "ok"
             THEN pc' = "systemPrompt" /\ UNCHANGED outcome
             ELSE Reject(ErrorOf(<<"onAgentStart failed">>))
     ELSE /\ o = "ok"
          /\ pc' = "systemPrompt"
          /\ UNCHANGED <<outcome, calls>>
  /\ UNCHANGED <<callerVars, otherRunVars, chatVars,
                 currentTurn, originalInput, generatedItems, returnItems,
                 currentAgent, shouldRunAgentStartHooks, guardrailPromises,
                 guardrailIdx, request, modelResponse, processedResponse, toolIdx, results,
                 nextStep>>

DefaultSystemPrompt == <<"You are a helpful AI assistant.">>

SystemPrompt(a) ==
  IF Agent[a].hasSystemPrompt THEN <<"prompt of ", a>> ELSE DefaultSystemPrompt

IsToolCallItem(item) == "name" \in DOMAIN item /\ "parameters" \in DOMAIN item

\* the functionCall / functionResponse pair of one generated item
ItemMessages(item, itemUuid) ==
  IF ~IsToolCallItem(item) THEN <<>>
  ELSE <<[role |-> "model",
          parts |-> <<[functionCall |->
                         [id |-> itemUuid, name |-> item.name, args |-> item.parameters]]>>]>>
       \o (IF "result" \in DOMAIN item
           THEN <<[role |-> "user",
                   parts |-> <<[functionResponse |->
                                  [id |-> itemUuid, name |-> item.name,
                                   response |-> [name |-> item.name,
                                                 content |-> item.result]]]>>]>>
           ELSE <<>>)

\* uuidv4(): an identifier no other generated message of the run carries
Uuid(turn, i) == <<turn, i>>

BuildMessages_HistoryFirst(a, in, items, turn) ==
  in
  \o Agent[a].injectMessages
  \o Flatten([i \in 1..Len(items) |-> ItemMessages(items[i], Uuid(turn, i))])

BuildMessages(a, in, items, turn) ==
  Agent[a].injectMessages
  \o in
  \o Flatten([i \in 1..Len(items) |-> ItemMessages(items[i], Uuid(turn, i))])

HandoffToolName(h) == HandoffPrefix \o Agent[h].name

HandoffTools(a) ==
  [i \in 1..Len(Agent[a].handoffs) |-> HandoffToolName(Agent[a].handoffs[i])]

AllTools(a) ==
  [i \in 1..Len(Agent[a].tools) |-> Agent[a].tools[i].name] \o HandoffTools(a)

GetSystemPrompt(o) ==
  /\ pc = "systemPrompt"
  /\ IF Agent[currentAgent].hasSystemPrompt
     THEN /\ o \in {"ok", "throws"}
          /\ calls' = Append(calls, IF o = "ok"
                                    THEN Call("getSystemPrompt", Agent[currentAgent].name)
                                    ELSE Thrown("getSystemPrompt", Agent[currentAgent].name))
     ELSE /\ o = "ok"
          /\ UNCHANGED calls
  /\ IF o = "ok"
     THEN /\ pc' = "generate"
          /\ request' = [present |-> TRUE,
                         contents |-> BuildMessages(currentAgent, originalInput,
                                                    generatedItems, currentTurn),
                         tools |-> AllTools(currentAgent),
                         systemInstruction |-> SystemPrompt(currentAgent)]
          /\ UNCHANGED outcome
     ELSE /\ Reject(ErrorOf(<<"getSystemPrompt failed">>))
          /\ UNCHANGED request
  /\ UNCHANGED <<callerVars, otherRunVars, chatVars,
                 currentTurn, originalInput, generatedItems, returnItems,
                 currentAgent, shouldRunAgentStartHooks, guardrailPromises,
                 guardrailIdx, modelResponse, processedResponse, toolIdx, results, nextStep>>

(***************************************************************************)
(* processModelResponse and getHandoffAgent.                               *)
(***************************************************************************)
IsFunctionCallPart(p) == p.kind = "functionCall"

IsHandoffCall_Never(c) == FALSE

IsHandoffCall(c) == StartsWith(c.name, HandoffPrefix)

IsOrdinaryCall(c) == ~IsHandoffCall(c)

ResponseText_FirstOnly(parts) ==
  LET texts == SelectSeq(parts, LAMBDA p : p.kind = "text" /\ p.text # <<>>)
  IN IF texts = <<>> THEN <<>> ELSE texts[1].text

ResponseText(parts) ==
  Flatten([i \in 1..Len(parts) |->
             IF parts[i].kind = "text" /\ parts[i].text # <<>> THEN parts[i].text ELSE <<>>])

FunctionCalls(parts) ==
  LET fcs == SelectSeq(parts, IsFunctionCallPart)
  IN [i \in 1..Len(fcs) |->
        [name |-> fcs[i].name, parameters |-> fcs[i].args, result |-> NullResult]]

HandoffRequest_Last(calls_) ==
  LET hits == {j \in 1..Len(calls_) : IsHandoffCall(calls_[j])}
      i == IF hits = {} THEN 0 ELSE CHOOSE j \in hits : \A k \in hits : j >= k
  IN IF i = 0 THEN NoHandoff
     ELSE [present |-> TRUE,
           agentName |-> Substring(calls_[i].name, Len(HandoffPrefix)),
           reason |-> calls_[i].parameters.reason]

HandoffRequest(calls_) ==
  LET hits == {j \in 1..Len(calls_) : IsHandoffCall(calls_[j])}
      i == IF hits = {} THEN 0 ELSE CHOOSE j \in hits : \A k \in hits : j <= k
  IN IF i = 0 THEN NoHandoff
     ELSE [present |-> TRUE,
           agentName |-> Substring(calls_[i].name, Len(HandoffPrefix)),
           reason |-> calls_[i].parameters.reason]

processModelResponse(response) ==
  IF response.kind # "list"
  THEN [present |-> TRUE,
        finalOutput |-> <<"Error processing model response">>,
        handoffPerformed |-> FALSE,
        handoffAgent |-> NoHandoff,
        toolCalls |-> <<>>]
  ELSE LET responseText == ResponseText(response.parts)
           toolCalls == FunctionCalls(response.parts)
       IN [present |-> TRUE,
           finalOutput |-> IF responseText # <<>> /\ Trim(responseText) # <<>>
                           THEN responseText ELSE <<>>,
           handoffPerformed |-> HandoffRequest(toolCalls).present,
           handoffAgent |-> HandoffRequest(toolCalls),
           toolCalls |-> SelectSeq(toolCalls, IsOrdinaryCall)]

getHandoffAgent_Default(handoffTarget, cur) == [ok |-> TRUE, agent |-> cur]

getHandoffAgent_Vetoed(handoffTarget, cur) ==
  LET hs == Agent[cur].handoffs
      hits == {i \in 1..Len(hs) : /\ Agent[hs[i]].name = handoffTarget
                                  /\ Agent[cur].handoffFilters[i] # "false"}
  IN IF hits # {}
     THEN [ok |-> TRUE, agent |-> hs[CHOOSE i \in hits : \A j \in hits : i <= j]]
     ELSE [ok |-> FALSE,
           message |-> <<"Cannot find handoff agent named ">> \o handoffTarget]

getHandoffAgent(handoffTarget, cur) ==
  LET hs == Agent[cur].handoffs
      hits == {i \in 1..Len(hs) : Agent[hs[i]].name = handoffTarget}
  IN IF hits # {}
     THEN [ok |-> TRUE, agent |-> hs[CHOOSE i \in hits : \A j \in hits : i <= j]]
     ELSE [ok |-> FALSE,
           message |-> <<"Cannot find handoff agent named ">> \o handoffTarget]

HandoffRecord(h) ==
  [role |-> "model",
   parts |-> <<[functionCall |->
                  [name |-> <<"handoff">>,
                   args |-> [agentName |-> h.agentName, reason |-> h.reason]]]>>]

(***************************************************************************)
(* Runner.run: what the loop does with the result of a turn.               *)
(***************************************************************************)
TurnOriginalInput_Messages(in, messages) == messages

\* the originalInput a finished turn hands back to the loop
TurnOriginalInput(in, messages) == in

NextAgent_Stay(cur, step) == cur

HooksAfter_Always(step) == TRUE

NextAgent(cur, step) == IF step.type = "handoff" THEN step.newAgent ELSE cur

HooksAfter(step) == step.type = "handoff"

AgentResult_VisitRecorded(finalOutput, items, rItems) ==
  [finalOutput |-> finalOutput,
   handoffPerformed |-> FALSE,
   toolCalls |-> SelectSeq(items, IsToolCallItem),
   context |-> [context EXCEPT !.visitedNodes = Append(@, currentAgent)],
   returnItems |-> rItems]

AgentResult_NoToolCalls(finalOutput, items, rItems) ==
  [finalOutput |-> finalOutput,
   handoffPerformed |-> FALSE,
   toolCalls |-> <<>>,
   context |-> context,
   returnItems |-> rItems]

AgentResult(finalOutput, items, rItems) ==
  [finalOutput |-> finalOutput,
   handoffPerformed |-> FALSE,
   toolCalls |-> SelectSeq(items, IsToolCallItem),
   context |-> context,
   returnItems |-> rItems]

(***************************************************************************)
(* runSingleTurn: the model call and the classification of its response.   *)
(***************************************************************************)
Classify_ToolsFirst(p) ==
  IF p.toolCalls # <<>> THEN "tool_calls"
  ELSE IF p.handoffAgent.present THEN "handoff"
  ELSE "final_output"

Classify_NeverFinal(p) ==
  IF p.handoffAgent.present THEN "handoff" ELSE "tool_calls"

\* the order in which runSingleTurn looks at the processed response
Classify(p) ==
  IF p.handoffAgent.present THEN "handoff"
  ELSE IF p.toolCalls # <<>> THEN "tool_calls"
  ELSE "final_output"

GenerateContent(response) ==
  /\ pc = "generate"
  /\ Len(generatedItems) + Len(processModelResponse(response).toolCalls) <= MaxToolCalls
  /\ modelResponse' = response
  /\ LET p == processModelResponse(response)
         log == Append(calls, Call("generateContent", Agent[currentAgent].name))
     IN /\ processedResponse' = p
        /\ IF Classify(p) = "handoff"
           THEN LET h == getHandoffAgent(p.handoffAgent.agentName, currentAgent)
                IN IF h.ok
                   THEN LET step == [type |-> "handoff", newAgent |-> h.agent]
                        IN /\ returnItems' = Append(returnItems, HandoffRecord(p.handoffAgent))
                           /\ nextStep' = step
                           /\ currentAgent' = NextAgent(currentAgent, step)
                           /\ shouldRunAgentStartHooks' = HooksAfter(step)
                           /\ pc' = "loop"
                           /\ calls' = log
                           /\ UNCHANGED <<outcome, toolIdx, guardrailPromises, guardrailIdx>>
                   ELSE /\ Reject(ErrorOf(<<"Failed to run model: ">> \o h.message))
                        /\ calls' = log
                        /\ UNCHANGED <<returnItems, nextStep, currentAgent,
                                       shouldRunAgentStartHooks, toolIdx,
                                       guardrailPromises, guardrailIdx>>
           ELSE IF Classify(p) = "tool_calls"
           THEN /\ pc' = "tools"
                /\ toolIdx' = 1
                /\ calls' = log
                /\ UNCHANGED <<outcome, returnItems, nextStep, currentAgent,
                               shouldRunAgentStartHooks, guardrailPromises, guardrailIdx>>
           ELSE LET step == [type |-> "final_output", output |-> p.finalOutput]
                    gs == OutputGuardrailsOf(currentAgent)
                IN /\ nextStep' = step
                   /\ currentAgent' = NextAgent(currentAgent, step)
                   /\ shouldRunAgentStartHooks' = FALSE
                   /\ IF gs # <<>>
                      THEN /\ pc' = "outputGuardrails"
                           /\ guardrailPromises' = StartValidations(gs)
                           /\ guardrailIdx' = 1
                           /\ calls' = log \o ValidateCalls(gs)
                           /\ UNCHANGED outcome
                      ELSE /\ pc' = "done"
                           /\ outcome' = Resolved(AgentResult(step.output, generatedItems,
                                                              returnItems))
                           /\ calls' = log
                           /\ UNCHANGED <<guardrailPromises, guardrailIdx>>
                   /\ UNCHANGED <<returnItems, toolIdx>>
  /\ originalInput' =
       (LET p == processModelResponse(response)
        IN IF \/ Classify(p) = "tool_calls"
              \/ /\ Classify(p) = "handoff"
                 /\ ~getHandoffAgent(p.handoffAgent.agentName, currentAgent).ok
           THEN originalInput
           ELSE TurnOriginalInput(originalInput, request.contents))
  /\ UNCHANGED <<callerVars, otherRunVars, chatVars,
                 currentTurn, generatedItems, request, results>>

GenerateContentRejects_Retry ==
  /\ pc = "generate"
  /\ calls' = Append(calls, Thrown("generateContent", Agent[currentAgent].name))
  /\ UNCHANGED <<callerVars, otherRunVars, chatVars,
                 pc, outcome, currentTurn, originalInput, generatedItems,
                 returnItems, currentAgent, shouldRunAgentStartHooks, guardrailPromises,
                 guardrailIdx, request, modelResponse, processedResponse, toolIdx, results,
                 nextStep>>

GenerateContentRejects ==
  /\ pc = "generate"
  /\ calls' = Append(calls, Thrown("generateContent", Agent[currentAgent].name))
  /\ Reject(ErrorOf(<<"Failed to run model: ", "generation failed">>))
  /\ UNCHANGED <<callerVars, otherRunVars, chatVars,
                 currentTurn, originalInput, generatedItems, returnItems,
                 currentAgent, shouldRunAgentStartHooks, guardrailPromises,
                 guardrailIdx, request, modelResponse, processedResponse, toolIdx, results,
                 nextStep>>

\* runOutputGuardrails: one iteration of the loop over the promises
AwaitOutputGuardrail ==
  /\ pc = "outputGuardrails"
  /\ guardrailPromises[guardrailIdx].state # "pending"
  /\ IF OutputTripwireTriggered(guardrailPromises[guardrailIdx])
     THEN /\ Reject(GuardrailTripwireTriggered(guardrailPromises[guardrailIdx].name))
          /\ UNCHANGED <<guardrailPromises, guardrailIdx>>
     ELSE IF guardrailIdx < Len(guardrailPromises)
     THEN /\ guardrailIdx' = guardrailIdx + 1
          /\ UNCHANGED <<pc, outcome, guardrailPromises>>
     ELSE /\ pc' = "done"
          /\ outcome' = Resolved(AgentResult(nextStep.output, generatedItems, returnItems))
          /\ guardrailPromises' = <<>>
          /\ guardrailIdx' = 0
  /\ UNCHANGED <<callerVars, otherRunVars, chatVars,
                 currentTurn, originalInput, generatedItems, returnItems,
                 currentAgent, shouldRunAgentStartHooks, request, modelResponse,
                 processedResponse,
                 toolIdx, results, nextStep, calls>>

(***************************************************************************)
(* executeToolCalls: one iteration of the loop over the requested calls,   *)
(* and the end of a turn that executed tools.                              *)
(***************************************************************************)
FindTool_AnyCatalog(a, n) ==
  IF /\ Agent[a].tools # <<>>
     /\ \E b \in AgentIds : \E j \in 1..Len(Agent[b].tools) : Agent[b].tools[j].name = n
  THEN 1
  ELSE 0

FindTool(a, n) ==
  LET ts == Agent[a].tools
      hits == {i \in 1..Len(ts) : ts[i].name = n}
  IN IF hits = {} THEN 0 ELSE CHOOSE i \in hits : \A j \in hits : i <= j

Executed_WithText(toolCall, result, show) ==
  [name |-> toolCall.name, parameters |-> toolCall.parameters,
   result |-> result, showInThread |-> show, text |-> processedResponse.finalOutput]

Executed(toolCall, result, show) ==
  [name |-> toolCall.name, parameters |-> toolCall.parameters,
   result |-> result, showInThread |-> show]

NotFoundResult_Unnamed(n) == ErrorResult(<<"Tool not found">>)

NotFoundResult(n) == ErrorResult(ToolNotFoundMessage(n))

Threw(item) ==
  /\ "error" \in DOMAIN item.result
  /\ item.result.error
  /\ item.result.message # ToolNotFoundMessage(item.name)

ToolOutcomes ==
  {"ok"}
  \cup (IF Len(SelectSeq(generatedItems \o results, Threw)) < MaxToolFailures
        THEN {"executeThrows"}
             \cup (IF "onToolStart" \in hooks THEN {"onToolStartThrows"} ELSE {})
             \cup (IF "onToolEnd" \in hooks THEN {"onToolEndThrows"} ELSE {})
        ELSE {})

ToolCallLog_ExecuteFirst(n, o) ==
  (IF o # "onToolStartThrows"
   THEN <<IF o = "executeThrows" THEN Thrown("execute", n) ELSE Call("execute", n)>>
   ELSE <<>>)
  \o (IF "onToolStart" \in hooks
      THEN <<IF o = "onToolStartThrows" THEN Thrown("onToolStart", n)
                                        ELSE Call("onToolStart", n)>>
      ELSE <<>>)
  \o (IF "onToolEnd" \in hooks /\ o \in {"ok", "onToolEndThrows"}
      THEN <<IF o = "onToolEndThrows" THEN Thrown("onToolEnd", n)
                                      ELSE Call("onToolEnd", n)>>
      ELSE <<>>)

\* the calls one iteration makes, in order
ToolCallLog(n, o) ==
  (IF "onToolStart" \in hooks
   THEN <<IF o = "onToolStartThrows" THEN Thrown("onToolStart", n)
                                     ELSE Call("onToolStart", n)>>
   ELSE <<>>)
  \o (IF o # "onToolStartThrows"
      THEN <<IF o = "executeThrows" THEN Thrown("execute", n) ELSE Call("execute", n)>>
      ELSE <<>>)
  \o (IF "onToolEnd" \in hooks /\ o \in {"ok", "onToolEndThrows"}
      THEN <<IF o = "onToolEndThrows" THEN Thrown("onToolEnd", n)
                                      ELSE Call("onToolEnd", n)>>
      ELSE <<>>)

ToolResult_NullOnThrow(n, o) == IF o = "ok" THEN OkResult(n) ELSE NullResult

ToolResult_HookErrorsDropped(n, o) ==
  IF o = "executeThrows" THEN ErrorResult(<<"execute failed">>) ELSE OkResult(n)

ToolResult(n, o) ==
  CASE o = "ok" -> OkResult(n)
    [] o = "onToolStartThrows" -> ErrorResult(<<"onToolStart failed">>)
    [] o = "executeThrows" -> ErrorResult(<<"execute failed">>)
    [] o = "onToolEndThrows" -> ErrorResult(<<"onToolEnd failed">>)

ExecuteToolCall(o) ==
  /\ pc = "tools"
  /\ toolIdx <= Len(processedResponse.toolCalls)
  /\ LET toolCall == processedResponse.toolCalls[toolIdx]
         t == FindTool(currentAgent, toolCall.name)
     IN IF t # 0
        THEN /\ o \in ToolOutcomes
             /\ calls' = calls \o ToolCallLog(toolCall.name, o)
             /\ results' = Append(results,
                                  Executed(toolCall, ToolResult(toolCall.name, o),
                                           Agent[currentAgent].tools[t].showInThread))
        ELSE /\ o = "notFound"
             /\ results' = Append(results,
                                  Executed(toolCall, NotFoundResult(toolCall.name), FALSE))
             /\ UNCHANGED calls
  /\ toolIdx' = toolIdx + 1
  /\ UNCHANGED <<callerVars, otherRunVars, chatVars,
                 pc, currentTurn, originalInput, generatedItems, returnItems,
                 currentAgent, shouldRunAgentStartHooks, guardrailPromises,
                 guardrailIdx, request, modelResponse, processedResponse, nextStep, outcome>>

ShownInThread_All(toolCall) == TRUE

ShownInThread(toolCall) == toolCall.showInThread

FinishToolTurn_Replace ==
  /\ pc = "tools"
  /\ toolIdx > Len(processedResponse.toolCalls)
  /\ LET step == [type |-> "run_again"]
     IN /\ returnItems' = returnItems \o SelectSeq(results, ShownInThread)
        /\ generatedItems' = results
        /\ nextStep' = step
        /\ currentAgent' = NextAgent(currentAgent, step)
        /\ shouldRunAgentStartHooks' = HooksAfter(step)
  /\ pc' = "loop"
  /\ toolIdx' = 0
  /\ results' = <<>>
  /\ originalInput' = TurnOriginalInput(originalInput, request.contents)
  /\ UNCHANGED <<callerVars, otherRunVars, chatVars,
                 currentTurn, guardrailPromises, guardrailIdx,
                 request, modelResponse, processedResponse, outcome, calls>>

FinishToolTurn ==
  /\ pc = "tools"
  /\ toolIdx > Len(processedResponse.toolCalls)
  /\ LET step == [type |-> "run_again"]
     IN /\ returnItems' = returnItems \o SelectSeq(results, ShownInThread)
        /\ generatedItems' = generatedItems \o results
        /\ nextStep' = step
        /\ currentAgent' = NextAgent(currentAgent, step)
        /\ shouldRunAgentStartHooks' = HooksAfter(step)
  /\ pc' = "loop"
  /\ toolIdx' = 0
  /\ results' = <<>>
  /\ originalInput' = TurnOriginalInput(originalInput, request.contents)
  /\ UNCHANGED <<callerVars, otherRunVars, chatVars,
                 currentTurn, guardrailPromises, guardrailIdx,
                 request, modelResponse, processedResponse, outcome, calls>>

(***************************************************************************)
(* The run.                                                                *)
(***************************************************************************)
Next ==
  \/ LoopTop
  \/ \E i \in 1..2, r \in {"pass", "trip", "throw"} : GuardrailSettles(i, r)
  \/ AwaitInputGuardrail
  \/ \E o \in {"ok", "throws"} : AgentStartHook(o)
  \/ \E o \in {"ok", "throws"} : GetSystemPrompt(o)
  \/ \E response \in ModelResponses : GenerateContent(response)
  \/ GenerateContentRejects
  \/ \E o \in {"ok", "executeThrows", "onToolStartThrows", "onToolEndThrows", "notFound"} :
        ExecuteToolCall(o)
  \/ FinishToolTurn
  \/ AwaitOutputGuardrail

Spec == Init /\ [][Next]_vars

\* every call the run awaits returns or rejects
FairSpec == Spec /\ WF_vars(Next)

(***************************************************************************)
(* Two run() calls in flight. Both were made with the same agent, the same *)
(* input list and the same options. The variables of the run hold the      *)
(* locals of the call that is executing; the locals of the other call,     *)
(* suspended at an await, are parked. At an await the event loop may       *)
(* resume the other call.                                                  *)
(***************************************************************************)
RunLocals ==
  [pc |-> pc, currentTurn |-> currentTurn, originalInput |-> originalInput,
   generatedItems |-> generatedItems, returnItems |-> returnItems,
   currentAgent |-> currentAgent, shouldRunAgentStartHooks |-> shouldRunAgentStartHooks,
   guardrailPromises |-> guardrailPromises, guardrailIdx |-> guardrailIdx,
   request |-> request, modelResponse |-> modelResponse,
   processedResponse |-> processedResponse, toolIdx |-> toolIdx, results |-> results,
   nextStep |-> nextStep, outcome |-> outcome, calls |-> calls]

Resume(l) ==
  /\ pc' = l.pc
  /\ currentTurn' = l.currentTurn
  /\ originalInput' = l.originalInput
  /\ generatedItems' = l.generatedItems
  /\ returnItems' = l.returnItems
  /\ currentAgent' = l.currentAgent
  /\ shouldRunAgentStartHooks' = l.shouldRunAgentStartHooks
  /\ guardrailPromises' = l.guardrailPromises
  /\ guardrailIdx' = l.guardrailIdx
  /\ request' = l.request
  /\ modelResponse' = l.modelResponse
  /\ processedResponse' = l.processedResponse
  /\ toolIdx' = l.toolIdx
  /\ results' = l.results
  /\ nextStep' = l.nextStep
  /\ outcome' = l.outcome
  /\ calls' = l.calls

Switch_SharedItems ==
  /\ parked.present
  /\ parked.locals.pc # "done"
  /\ active' = 3 - active
  /\ parked' = [present |-> TRUE, locals |-> RunLocals]
  /\ Resume([parked.locals EXCEPT !.generatedItems = generatedItems])
  /\ UNCHANGED <<callerVars, chatVars>>

\* the executing call is suspended and the other one resumed
Switch ==
  /\ parked.present
  /\ parked.locals.pc # "done"
  /\ active' = 3 - active
  /\ parked' = [present |-> TRUE, locals |-> RunLocals]
  /\ Resume(parked.locals)
  /\ UNCHANGED <<callerVars, chatVars>>

\* what the model answers to the calls in flight: at most one part
ConcurrentResponses == {r \in ModelResponses : Len(r.parts) <= 1}

ConcurrentInit ==
  /\ startingAgent = "A"
  /\ input \in Inputs
  /\ maxTurns = MaxTurnsBound - 1
  /\ hooks = AllHooks
  /\ context = CallerContext
  /\ RunStart
  /\ parked = [present |-> TRUE, locals |-> RunLocals]
  /\ active = 1
  /\ NoChat

ConcurrentNext ==
  \/ LoopTop
  \/ \E i \in 1..2, r \in {"pass", "trip", "throw"} : GuardrailSettles(i, r)
  \/ AwaitInputGuardrail
  \/ \E o \in {"ok", "throws"} : AgentStartHook(o)
  \/ \E o \in {"ok", "throws"} : GetSystemPrompt(o)
  \/ \E response \in ConcurrentResponses : GenerateContent(response)
  \/ GenerateContentRejects
  \/ \E o \in {"ok", "executeThrows", "onToolStartThrows", "onToolEndThrows", "notFound"} :
        ExecuteToolCall(o)
  \/ FinishToolTurn
  \/ AwaitOutputGuardrail
  \/ Switch

ConcurrentSpec == ConcurrentInit /\ [][ConcurrentNext]_vars

(***************************************************************************)
(* The chat surface: one query, typed into the prompt, is submitted and    *)
(* processed by a run of the agent system; when that run rejects, the      *)
(* component falls back to one plain content-generation call. The surface  *)
(* is not waiting for dashboard data (isDashboardDataLoaded() holds).      *)
(***************************************************************************)
TextMessage(actor, message) == [type |-> "text", actor |-> actor, message |-> message]

\* the thread of the model holds text messages only
generateHistory(messages) ==
  [i \in 1..Len(messages) |->
     [role |-> IF messages[i].actor = "user" THEN "user" ELSE "model",
      parts |-> <<messages[i].message>>]]

Queries == {<<"q">>}

FallbackApology == <<"Sorry, I encountered an error processing your request.">>

\* what the fallback call resolves with: parts with text, or no list at all
FallbackResponses ==
  {PartList(ps) : ps \in MapSeqs(1, {TextPart(<<"x">>), TextPart(<<>>)})} \cup {NotAList}

ChatInit ==
  /\ query \in Queries
  /\ isQuerying = FALSE
  /\ thread = <<>>
  /\ chatPc = "idle"
  /\ startingAgent = "A"
  /\ input = [kind |-> "list", value |-> generateHistory(<<TextMessage("user", query)>>)]
  /\ maxTurns = MaxTurnsBound
  /\ hooks = {"onAgentStart"}
  /\ context = CallerContext
  /\ RunStart
  /\ parked = NoOtherRun
  /\ active = 1

\* submitMessage up to the call of Runner.run in runAgentProcessing
submitMessage ==
  /\ chatPc = "idle"
  /\ query # <<>>
  /\ thread' = Append(thread, TextMessage("user", query))
  /\ isQuerying' = TRUE
  /\ query' = <<>>
  /\ chatPc' = "running"
  /\ UNCHANGED <<callerVars, otherRunVars, runVars>>

\* runAgentProcessing once Runner.run has settled
RunSettles ==
  /\ chatPc = "running"
  /\ pc = "done"
  /\ IF outcome.type = "resolved"
     THEN /\ thread' = Append(thread, TextMessage("model", outcome.result.finalOutput))
          /\ isQuerying' = FALSE
          /\ chatPc' = "idle"
     ELSE /\ chatPc' = "fallback"
          /\ UNCHANGED <<thread, isQuerying>>
  /\ UNCHANGED <<callerVars, otherRunVars, runVars, query>>

\* the catch block of runAgentProcessing once the fallback call has resolved
FallbackResponds(response) ==
  /\ chatPc = "fallback"
  /\ IF response.kind = "list"
     THEN LET responseText == ResponseText(response.parts)
          IN /\ thread' = Append(thread, TextMessage("model",
                                   IF responseText # <<>> THEN responseText
                                                          ELSE FallbackApology))
             /\ isQuerying' = FALSE
             /\ chatPc' = "idle"
     ELSE /\ chatPc' = "unhandled"
          /\ UNCHANGED <<thread, isQuerying>>
  /\ UNCHANGED <<callerVars, otherRunVars, runVars, query>>

\* the fallback call rejects inside the catch block: nothing catches it
FallbackRejects ==
  /\ chatPc = "fallback"
  /\ chatPc' = "unhandled"
  /\ UNCHANGED <<callerVars, otherRunVars, runVars, query, thread, isQuerying>>

ChatNext ==
  \/ submitMessage
  \/ chatPc = "running" /\ LoopTop
  \/ chatPc = "running" /\
       \E i \in 1..2, r \in {"pass", "trip", "throw"} : GuardrailSettles(i, r)
  \/ chatPc = "running" /\ AwaitInputGuardrail
  \/ chatPc = "running" /\ \E o \in {"ok", "throws"} : AgentStartHook(o)
  \/ chatPc = "running" /\ \E o \in {"ok", "throws"} : GetSystemPrompt(o)
  \/ chatPc = "running" /\ \E response \in ModelResponses : GenerateContent(response)
  \/ chatPc = "running" /\ GenerateContentRejects
  \/ chatPc = "running" /\
       \E o \in {"ok", "executeThrows", "onToolStartThrows", "onToolEndThrows", "notFound"} :
          ExecuteToolCall(o)
  \/ chatPc = "running" /\ FinishToolTurn
  \/ chatPc = "running" /\ AwaitOutputGuardrail
  \/ RunSettles
  \/ \E response \in FallbackResponses : FallbackResponds(response)
  \/ FallbackRejects

ChatSpec == ChatInit /\ [][ChatNext]_vars

\* every awaited call of the chat surface settles
FairChatSpec == ChatSpec /\ WF_vars(ChatNext)

TypeOK ==
  /\ pc \in {"loop", "inputGuardrails", "agentStart", "systemPrompt", "generate",
             "tools", "outputGuardrails", "done"}
  /\ currentAgent \in AgentIds
  /\ outcome.type \in {"none", "resolved", "MaxTurnsExceeded",
                       "GuardrailTripwireTriggered", "Error"}
  /\ (pc = "done") = (outcome.type # "none")
  /\ active \in {1, 2}
  /\ parked.present \in BOOLEAN

(***************************************************************************)
(* Observations on the log of calls.                                       *)
(***************************************************************************)
IsTurnCall(c) == c.op = "runSingleTurn"
IsGenerateCall(c) == c.op = "generateContent"
IsAgentStartCall(c) == c.op = "onAgentStart"

TurnsRun == Len(SelectSeq(calls, IsTurnCall))
GenerateCalls(log) == Len(SelectSeq(log, IsGenerateCall))

TurnBudget == IF maxTurns > 0 THEN maxTurns ELSE 0

InputGuardrailNames == {"inA", "inB", "inRC"}
OutputGuardrailNames == {"outB", "outRC"}

TrippedGuardrails(names) ==
  {guardrailPromises[i].name : i \in {j \in 1..Len(guardrailPromises) :
                                        /\ guardrailPromises[j].name \in names
                                        /\ guardrailPromises[j].state = "trip"}}

(***************************************************************************)
(* C1: with maxTurns >= 0 the turn counter stays within 0..maxTurns; when  *)
(* the loop is left because the counter reached maxTurns, run() rejects    *)
(* with MaxTurnsExceeded, exactly maxTurns turns have run and nothing is   *)
(* returned.                                                               *)
(***************************************************************************)
C1_TurnCounterBounded ==
  /\ [](maxTurns >= 0 => (0 <= currentTurn /\ currentTurn <= maxTurns))
  /\ [](outcome.type = "MaxTurnsExceeded" =>
          /\ outcome = MaxTurnsExceeded(maxTurns)
          /\ TurnsRun = TurnBudget
          /\ GenerateCalls(calls) <= TurnBudget)
  /\ [][(pc = "loop" /\ currentTurn >= maxTurns) =>
          (pc' = "done" /\ outcome' = MaxTurnsExceeded(maxTurns))]_vars

C1_Witness ==
  /\ pc = "done"
  /\ maxTurns = 1
  /\ outcome = MaxTurnsExceeded(1)
  /\ nextStep.type = "run_again"
  /\ TurnsRun = 1
  /\ Len(generatedItems) = 1

(***************************************************************************)
(* C2: when every awaited call returns or rejects, every run settles, and  *)
(* it has then run at most maxTurns turns, whatever the model answers.     *)
(***************************************************************************)
C2_RunSettles ==
  <>[](pc = "done" /\ outcome.type # "none" /\ TurnsRun <= TurnBudget)

\* two agents handing off to each other on every turn
C2_Witness ==
  /\ pc = "done"
  /\ startingAgent = "A"
  /\ maxTurns = 2
  /\ outcome.type = "MaxTurnsExceeded"
  /\ generatedItems = <<>>
  /\ Len(returnItems) = 2
  /\ currentAgent = "A"

(***************************************************************************)
(* C3: once an input guardrail has reported a tripped tripwire, the run    *)
(* never leaves the input pipeline except by rejecting with                *)
(* GuardrailTripwireTriggered, and no content generation call is made.     *)
(***************************************************************************)
C3_InputTripBlocksModel ==
  [][TrippedGuardrails(InputGuardrailNames) # {} =>
       /\ pc' \in {"inputGuardrails", "done"}
       /\ pc' = "done" => outcome'.type = "GuardrailTripwireTriggered"
       /\ GenerateCalls(calls') = 0]_vars

C3_Witness ==
  /\ pc = "done"
  /\ outcome = GuardrailTripwireTriggered("inRC")
  /\ guardrailPromises[1].state = "throw"
  /\ GenerateCalls(calls) = 0

(***************************************************************************)
(* C4: once an output guardrail has reported a tripped tripwire for the    *)
(* final text, run() does not resolve: it rejects with                     *)
(* GuardrailTripwireTriggered naming a guardrail that tripped.             *)
(***************************************************************************)
C4_OutputTripBlocksResult ==
  [][TrippedGuardrails(OutputGuardrailNames) # {} =>
       /\ pc' \in {"outputGuardrails", "done"}
       /\ outcome'.type # "resolved"
       /\ pc' = "done" =>
            /\ outcome'.type = "GuardrailTripwireTriggered"
            /\ outcome'.guardrail \in TrippedGuardrails(OutputGuardrailNames)]_vars

C4_Witness ==
  /\ pc = "done"
  /\ outcome = GuardrailTripwireTriggered("outB")
  /\ nextStep.type = "final_output"
  /\ nextStep.output = <<"x">>

(***************************************************************************)
(* What a raw model response asks for, read off the response itself.       *)
(***************************************************************************)
RequestedNames(r) ==
  IF r.present /\ r.kind = "list"
  THEN LET fcs == SelectSeq(r.parts, IsFunctionCallPart)
       IN [i \in 1..Len(fcs) |-> fcs[i].name]
  ELSE <<>>

HasHandoffPrefix(n) == Len(n) >= 1 /\ n[1] = "handoff_to_"

HandoffTargetNames(a) ==
  {Agent[Agent[a].handoffs[j]].name : j \in 1..Len(Agent[a].handoffs)}

\* the name is one of the synthetic handoff tools offered to the model for agent a
IsSyntheticHandoffTool(n, a) ==
  \E t \in HandoffTargetNames(a) : n = <<"handoff_to_">> \o t

PrefixedNames(r) == SelectSeq(RequestedNames(r), HasHandoffPrefix)

OwnsTool(a, n) == \E j \in 1..Len(Agent[a].tools) : Agent[a].tools[j].name = n

GenerateCallOf(a) == [op |-> "generateContent", what |-> Agent[a].name, threw |-> FALSE]

\* generated item i is in the prompt as a functionCall message directly followed by
\* a functionResponse message with the same id and the item's result
FedBack(i) ==
  \E j \in 1..(Len(request.contents) - 1) :
    LET fc == request.contents[j]
        fr == request.contents[j + 1]
    IN /\ fc.role = "model" /\ fr.role = "user"
       /\ Len(fc.parts) = 1 /\ Len(fr.parts) = 1
       /\ "functionCall" \in DOMAIN fc.parts[1]
       /\ "functionResponse" \in DOMAIN fr.parts[1]
       /\ fc.parts[1].functionCall.name = generatedItems[i].name
       /\ fr.parts[1].functionResponse.id = fc.parts[1].functionCall.id
       /\ fr.parts[1].functionResponse.name = generatedItems[i].name
       /\ fr.parts[1].functionResponse.response.content = generatedItems[i].result
       /\ j = Len(request.contents) - 2 * (Len(generatedItems) - i) - 1

(***************************************************************************)
(* C5: handoff has priority. When the response invokes a synthetic handoff *)
(* tool of the active agent, whatever ordinary tool calls and text come    *)
(* with it, the turn is a handoff: the step makes no tool or hook call,    *)
(* executes nothing and leaves generatedItems as it was.                   *)
(***************************************************************************)
C5_Case(r, a) ==
  /\ PrefixedNames(r) # <<>>
  /\ \A i \in 1..Len(PrefixedNames(r)) : IsSyntheticHandoffTool(PrefixedNames(r)[i], a)

C5_HandoffWins ==
  [][(modelResponse' # modelResponse /\ C5_Case(modelResponse', currentAgent)) =>
       /\ pc' = "loop"
       /\ nextStep'.type = "handoff"
       /\ generatedItems' = generatedItems
       /\ results' = <<>>
       /\ calls' = Append(calls, GenerateCallOf(currentAgent))]_vars

C5_Witness ==
  /\ pc = "loop"
  /\ nextStep.type = "handoff"
  /\ modelResponse.present
  /\ RequestedNames(modelResponse) = <<(<<"t1">>), (<<"handoff_to_", "B">>)>>
  /\ generatedItems = <<>>

(***************************************************************************)
(* C6: a call naming a tool the active agent does not own is recorded with *)
(* the result {error: true, message: "Tool <name> not found"} without any  *)
(* hook or execute call and without failing the run, and the next prompt   *)
(* carries that result as the functionResponse of the call.                *)
(***************************************************************************)
IsNotFoundItem(item) ==
  item.result = [error |-> TRUE, message |-> <<"Tool ">> \o item.name \o <<" not found">>]

C6_ToolNotFoundRecovers ==
  /\ [][(pc = "tools" /\ toolIdx' = toolIdx + 1
          /\ ~OwnsTool(currentAgent, processedResponse.toolCalls[toolIdx].name)) =>
          /\ pc' = "tools"
          /\ outcome' = NoOutcome
          /\ calls' = calls
          /\ results' = Append(results,
                [name |-> processedResponse.toolCalls[toolIdx].name,
                 parameters |-> processedResponse.toolCalls[toolIdx].parameters,
                 result |-> [error |-> TRUE,
                             message |-> <<"Tool ">>
                                         \o processedResponse.toolCalls[toolIdx].name
                                         \o <<" not found">>],
                 showInThread |-> FALSE])]_vars
  /\ [](pc = "generate" =>
          \A i \in 1..Len(generatedItems) : IsNotFoundItem(generatedItems[i]) => FedBack(i))

C6_Witness ==
  /\ pc = "generate"
  /\ currentTurn = 2
  /\ currentAgent = "C"
  /\ Len(generatedItems) = 2
  /\ generatedItems[1].name = <<"t1">>
  /\ IsNotFoundItem(generatedItems[1])
  /\ IsNotFoundItem(generatedItems[2])
  /\ FedBack(1)
  /\ FedBack(2)

(***************************************************************************)
(* C7: when a tool's execute throws, the call is recorded with the result  *)
(* {error: true, message} and the run goes on: every call of the response  *)
(* is executed, the turn ends in run_again with all of them appended, and  *)
(* the next prompt carries the error as the functionResponse of the call.  *)
(***************************************************************************)
ExecuteThrew(before, after) ==
  /\ Len(after) > Len(before)
  /\ after[Len(after)].op = "execute"
  /\ after[Len(after)].threw

IsThrownItem(item) == item.result = [error |-> TRUE, message |-> <<"execute failed">>]

C7_ToolExceptionRecovers ==
  /\ [][(pc = "tools" /\ ExecuteThrew(calls, calls')) =>
          /\ pc' = "tools"
          /\ outcome' = NoOutcome
          /\ toolIdx' = toolIdx + 1
          /\ Len(results') = Len(results) + 1
          /\ results'[Len(results')].name = processedResponse.toolCalls[toolIdx].name
          /\ IsThrownItem(results'[Len(results')])]_vars
  /\ [][pc = "tools" =>
          \/ pc' = "tools"
          \/ /\ pc' = "loop"
             /\ nextStep'.type = "run_again"
             /\ Len(results) = Len(processedResponse.toolCalls)
             /\ \A k \in 1..Len(results) :
                  results[k].name = processedResponse.toolCalls[k].name
             /\ generatedItems' = generatedItems \o results]_vars
  /\ [](pc = "generate" =>
          \A i \in 1..Len(generatedItems) : IsThrownItem(generatedItems[i]) => FedBack(i))

C7_Witness ==
  /\ pc = "generate"
  /\ currentTurn = 2
  /\ nextStep.type = "run_again"
  /\ Len(generatedItems) = 2
  /\ IsThrownItem(generatedItems[1])
  /\ generatedItems[2].result = OkResult(<<"t2">>)
  /\ FedBack(1)

(***************************************************************************)
(* C8: a turn whose response hands off to a registered target B makes B    *)
(* the active agent, with the input and the generated items unchanged;     *)
(* the next turn is run for B, and its model call carries B's system       *)
(* prompt, B's tools and handoff tools, and B's injectMessages in front of *)
(* the caller's input.                                                     *)
(***************************************************************************)
HandsOffTo(r, a, b) ==
  /\ PrefixedNames(r) # <<>>
  /\ PrefixedNames(r)[1] = <<"handoff_to_">> \o Agent[b].name
  /\ \E j \in 1..Len(Agent[a].handoffs) : Agent[a].handoffs[j] = b

C8_HandoffSwitchesAgent ==
  /\ [][\A b \in AgentIds :
          (modelResponse' # modelResponse /\ HandsOffTo(modelResponse', currentAgent, b)) =>
             /\ pc' = "loop"
             /\ currentAgent' = b
             /\ nextStep' = [type |-> "handoff", newAgent |-> b]
             /\ generatedItems' = generatedItems
             /\ originalInput' = originalInput]_vars
  /\ [][(pc = "loop" /\ pc' # "done") =>
          /\ currentAgent' = currentAgent
          /\ calls'[Len(calls')] =
               [op |-> "runSingleTurn", what |-> Agent[currentAgent].name, threw |-> FALSE]
             \/ pc' = "inputGuardrails"]_vars
  /\ [][(pc \in {"inputGuardrails", "agentStart", "systemPrompt"}) =>
          currentAgent' = currentAgent]_vars
  /\ [](pc = "generate" =>
          /\ request.systemInstruction =
               (IF Agent[currentAgent].hasSystemPrompt
                THEN <<"prompt of ", currentAgent>>
                ELSE <<"You are a helpful AI assistant.">>)
          /\ request.tools =
               [i \in 1..Len(Agent[currentAgent].tools) |-> Agent[currentAgent].tools[i].name]
               \o [i \in 1..Len(Agent[currentAgent].handoffs) |->
                     <<"handoff_to_">> \o Agent[Agent[currentAgent].handoffs[i]].name]
          /\ Len(request.contents) = Len(Agent[currentAgent].injectMessages)
                                     + Len(input.value) + 2 * Len(generatedItems)
          /\ SubSeq(request.contents, 1, Len(Agent[currentAgent].injectMessages))
               = Agent[currentAgent].injectMessages
          /\ SubSeq(request.contents, Len(Agent[currentAgent].injectMessages) + 1,
                    Len(Agent[currentAgent].injectMessages) + Len(input.value))
               = input.value)

C8_Witness ==
  /\ pc = "generate"
  /\ startingAgent = "A"
  /\ currentTurn = 2
  /\ currentAgent = "B"
  /\ request.systemInstruction = DefaultSystemPrompt
  /\ request.tools = <<(<<"t2">>), (<<"handoff_to_", "A">>)>>
  /\ returnItems = <<HandoffRecord([agentName |-> <<"B">>, reason |-> "needs B"])>>

(***************************************************************************)
(* C9: with an onAgentStart hook supplied, the hook has been called once   *)
(* for every turn run so far that is the first turn or directly follows a  *)
(* handoff, and for no other turn; each call comes right at the start of   *)
(* its turn, for the agent of that turn.                                   *)
(***************************************************************************)
IsHandoffRecord(item) == "role" \in DOMAIN item

HandoffsPerformed == Len(SelectSeq(returnItems, IsHandoffRecord))

\* the last turn ended in a handoff and no turn has been started since
HandoffNotYetFollowed ==
  /\ nextStep.type = "handoff"
  /\ pc = "loop" \/ (pc = "done" /\ outcome.type = "MaxTurnsExceeded")

\* a turn that is an activation has been entered and has not reached its hook
HookDue == pc = "agentStart" /\ (TurnsRun = 1 \/ nextStep.type = "handoff")

ActivationTurns ==
  (IF TurnsRun >= 1 THEN 1 ELSE 0) + HandoffsPerformed
  - (IF HandoffNotYetFollowed THEN 1 ELSE 0)

C9_AgentStartOncePerActivation ==
  /\ Len(SelectSeq(calls, IsAgentStartCall)) =
       (IF "onAgentStart" \in hooks
        THEN ActivationTurns - (IF HookDue THEN 1 ELSE 0)
        ELSE 0)
  /\ \A k \in 1..Len(calls) :
       IsAgentStartCall(calls[k]) =>
         /\ k > 1
         /\ calls[k - 1].op = "runSingleTurn"
         /\ calls[k - 1].what = calls[k].what

\* a turn reached through run_again: two turns, one call of the hook
C9_Witness ==
  /\ pc = "done"
  /\ outcome.type = "resolved"
  /\ "onAgentStart" \in hooks
  /\ TurnsRun = 2
  /\ HandoffsPerformed = 0
  /\ Len(SelectSeq(calls, IsAgentStartCall)) = 1

(***************************************************************************)
(* C10: when the first handoff invocation of a response names a target     *)
(* that is not in the active agent's handoffs, run() rejects with the      *)
(* wrapped error; the agent is not switched, no handoff record is added,   *)
(* and the run makes no further step.                                      *)
(***************************************************************************)
UnresolvedHandoff(r, a) ==
  /\ PrefixedNames(r) # <<>>
  /\ SubSeq(PrefixedNames(r)[1], 2, Len(PrefixedNames(r)[1])) \notin HandoffTargetNames(a)

C10_UnresolvedHandoffFails ==
  /\ [][(modelResponse' # modelResponse /\ UnresolvedHandoff(modelResponse', currentAgent)) =>
          /\ pc' = "done"
          /\ outcome' = [type |-> "Error",
                         message |-> <<"Error running agent: ", "Failed to run model: ",
                                       "Cannot find handoff agent named ">>
                                     \o SubSeq(PrefixedNames(modelResponse')[1], 2,
                                               Len(PrefixedNames(modelResponse')[1]))]
          /\ currentAgent' = currentAgent
          /\ returnItems' = returnItems
          /\ generatedItems' = generatedItems
          /\ calls' = Append(calls, GenerateCallOf(currentAgent))]_vars
  /\ [][pc # "done"]_vars

C10_Witness ==
  /\ pc = "done"
  /\ outcome = ErrorOf(<<"Error running agent: ", "Failed to run model: ",
                         "Cannot find handoff agent named ", "C">>)
  /\ startingAgent = "A"
  /\ currentAgent = "B"
  /\ HandoffsPerformed = 1
  /\ TurnsRun = 2

(***************************************************************************)
(* C11: when the content generation call rejects, run() rejects with the   *)
(* wrapped run error; that call is the last call the run makes (no retry,  *)
(* no tool execution afterwards) and nothing is returned.                  *)
(***************************************************************************)
GenerateRejected(before, after) ==
  /\ Len(after) > Len(before)
  /\ after[Len(after)].op = "generateContent"
  /\ after[Len(after)].threw

C11_GenerationFailureIsFatal ==
  /\ [][GenerateRejected(calls, calls') =>
          /\ pc' = "done"
          /\ outcome'.type = "Error"
          /\ StartsWith(outcome'.message, <<"Error running agent: ">>)
          /\ generatedItems' = generatedItems
          /\ returnItems' = returnItems]_vars
  /\ [](\A k \in 1..Len(calls) :
          (calls[k].op = "generateContent" /\ calls[k].threw) =>
             /\ k = Len(calls)
             /\ pc = "done"
             /\ outcome.type = "Error")

\* the generation call of the second turn rejects, after a tool turn
C11_Witness ==
  /\ pc = "done"
  /\ outcome = ErrorOf(<<"Error running agent: ", "Failed to run model: ",
                         "generation failed">>)
  /\ currentTurn = 2
  /\ Len(generatedItems) = 1
  /\ GenerateCalls(calls) = 2

(***************************************************************************)
(* C12: run() rejects with one of three kinds of error only. The typed     *)
(* errors GuardrailTripwireTriggered and MaxTurnsExceeded reach the caller *)
(* as they were thrown; everything else (a failed generation call, an      *)
(* unresolved handoff, an exception of onAgentStart or of the system       *)
(* prompt) is a generic error whose message starts "Error running agent:". *)
(***************************************************************************)
RunErrorPrefix == <<"Error running agent: ">>

IsFatalThrow(c) == c.threw /\ c.op \in {"onAgentStart", "getSystemPrompt", "generateContent"}

C12_OnlyThreeErrorKinds ==
  /\ pc = "done" =>
       outcome.type \in {"resolved", "GuardrailTripwireTriggered", "MaxTurnsExceeded", "Error"}
  /\ outcome.type = "Error" =>
       /\ DOMAIN outcome = {"type", "message"}
       /\ StartsWith(outcome.message, RunErrorPrefix)
       /\ Len(outcome.message) > Len(RunErrorPrefix)
  /\ outcome.type = "MaxTurnsExceeded" => outcome = [type |-> "MaxTurnsExceeded",
                                                      maxTurns |-> maxTurns]
  /\ outcome.type = "GuardrailTripwireTriggered" =>
       /\ DOMAIN outcome = {"type", "guardrail"}
       /\ outcome.guardrail \in InputGuardrailNames \cup OutputGuardrailNames
  /\ SelectSeq(calls, IsFatalThrow) # <<>> =>
       /\ outcome.type = "Error"
       /\ IsFatalThrow(calls[Len(calls)])
       /\ outcome.message \in
            {RunErrorPrefix \o <<"onAgentStart failed">>,
             RunErrorPrefix \o <<"getSystemPrompt failed">>,
             RunErrorPrefix \o <<"Failed to run model: ", "generation failed">>}

\* the onAgentStart hook of the agent reached by a handoff throws
C12_Witness ==
  /\ pc = "done"
  /\ outcome = [type |-> "Error", message |-> <<"Error running agent: ", "onAgentStart failed">>]
  /\ currentAgent = "B"
  /\ calls[Len(calls)] = [op |-> "onAgentStart", what |-> <<"B">>, threw |-> TRUE]

(***************************************************************************)
(* C13: guardrails fail open. A validation that throws is passed over by   *)
(* the pipeline's loop like one that passed: the run does not settle on    *)
(* it; when no guardrail of the pipeline tripped the input pipeline goes   *)
(* on to the turn and the output pipeline returns the final output; and a  *)
(* guardrail registered after a throwing one still raises its trip.        *)
(***************************************************************************)
Awaited == guardrailPromises[guardrailIdx]

PipelineStepped == guardrailIdx' # guardrailIdx \/ pc' # pc

NoneTripped == \A i \in 1..Len(guardrailPromises) : guardrailPromises[i].state # "trip"

ThrewBefore(i) == \E j \in 1..(i - 1) : guardrailPromises[j].state = "throw"

C13_GuardrailsFailOpen ==
  /\ [][(pc \in {"inputGuardrails", "outputGuardrails"}
          /\ Awaited.state = "throw" /\ PipelineStepped) =>
          /\ outcome'.type \in {"none", "resolved"}
          /\ \/ pc' = pc /\ guardrailIdx' = guardrailIdx + 1
             \/ guardrailIdx = Len(guardrailPromises) /\ NoneTripped]_vars
  /\ [][(pc = "inputGuardrails" /\ guardrailIdx = Len(guardrailPromises)
          /\ Awaited.state # "pending" /\ NoneTripped /\ PipelineStepped) =>
          /\ pc' = "agentStart"
          /\ outcome' = NoOutcome
          /\ calls' = Append(calls, [op |-> "runSingleTurn",
                                     what |-> Agent[currentAgent].name, threw |-> FALSE])]_vars
  /\ [][(pc = "outputGuardrails" /\ guardrailIdx = Len(guardrailPromises)
          /\ Awaited.state # "pending" /\ NoneTripped /\ PipelineStepped) =>
          /\ pc' = "done"
          /\ outcome'.type = "resolved"
          /\ outcome'.result.finalOutput = nextStep.output]_vars
  /\ [][(pc \in {"inputGuardrails", "outputGuardrails"}
          /\ Awaited.state = "trip" /\ ThrewBefore(guardrailIdx) /\ PipelineStepped) =>
          /\ pc' = "done"
          /\ outcome' = [type |-> "GuardrailTripwireTriggered",
                         guardrail |-> Awaited.name]]_vars

\* B's own output guardrail threw, the loop went past it, and the one of the
\* run configuration threw as well
C13_Witness ==
  /\ pc = "outputGuardrails"
  /\ currentAgent = "B"
  /\ nextStep.output = <<"x">>
  /\ guardrailIdx = 2
  /\ guardrailPromises[1] = [name |-> "outB", state |-> "throw"]
  /\ guardrailPromises[2] = [name |-> "outRC", state |-> "throw"]
  /\ outcome = NoOutcome

(***************************************************************************)
(* C14: a pipeline starts all its validations, the agent's own guardrails  *)
(* before those of the run configuration, before it looks at any result;   *)
(* whatever the order in which the validations finish, the results are     *)
(* looked at in registration order, and GuardrailTripwireTriggered is      *)
(* raised for the first guardrail in that order that tripped.              *)
(***************************************************************************)
InputPipelineActive ==
  \/ pc = "inputGuardrails"
  \/ outcome.type = "GuardrailTripwireTriggered" /\ outcome.guardrail \in InputGuardrailNames

OutputPipelineActive ==
  \/ pc = "outputGuardrails"
  \/ outcome.type = "GuardrailTripwireTriggered" /\ outcome.guardrail \in OutputGuardrailNames

RegistrationOrder ==
  IF InputPipelineActive
  THEN Agent[startingAgent].inputGuardrails \o RunConfig.inputGuardrails
  ELSE Agent[currentAgent].outputGuardrails \o RunConfig.outputGuardrails

C14_FirstTrippedInRegistrationOrder ==
  (InputPipelineActive \/ OutputPipelineActive) =>
    LET n == Len(RegistrationOrder)
    IN /\ Len(guardrailPromises) = n
       /\ \A i \in 1..n : guardrailPromises[i].name = RegistrationOrder[i]
       /\ Len(calls) >= n
       /\ \A i \in 1..n :
            calls[Len(calls) - n + i] =
              [op |-> "validate", what |-> <<RegistrationOrder[i]>>, threw |-> FALSE]
       /\ guardrailIdx \in 1..n
       /\ \A j \in 1..(guardrailIdx - 1) : guardrailPromises[j].state \in {"pass", "throw"}
       /\ outcome.type = "GuardrailTripwireTriggered" =>
            /\ guardrailPromises[guardrailIdx].name = outcome.guardrail
            /\ guardrailPromises[guardrailIdx].state = "trip"

\* both input guardrails tripped; the error names the agent's own guardrail
C14_Witness ==
  /\ pc = "done"
  /\ outcome = GuardrailTripwireTriggered("inA")
  /\ guardrailPromises = <<[name |-> "inA", state |-> "trip"],
                           [name |-> "inRC", state |-> "trip"]>>

(***************************************************************************)
(* C15: input guardrails are invoked on the first turn only: once a turn   *)
(* has begun, the validations made of input guardrails are exactly one for *)
(* each guardrail of the starting agent followed by one for each of the    *)
(* run configuration, they are the first calls of the run, and none is     *)
(* added on a later turn or for an agent reached through a handoff; a run  *)
(* that begins no turn validates nothing.                                  *)
(***************************************************************************)
IsInputValidation(c) == c.op = "validate" /\ c.what[1] \in InputGuardrailNames

InputValidations == SelectSeq(calls, IsInputValidation)

ExpectedInputGuardrails ==
  Agent[startingAgent].inputGuardrails \o RunConfig.inputGuardrails

C15_InputGuardrailsOnceOnFirstTurn ==
  /\ currentTurn = 0 => InputValidations = <<>>
  /\ currentTurn >= 1 =>
       /\ InputValidations =
            [i \in 1..Len(ExpectedInputGuardrails) |->
               [op |-> "validate", what |-> <<ExpectedInputGuardrails[i]>>, threw |-> FALSE]]
       /\ SubSeq(calls, 1, Len(ExpectedInputGuardrails)) = InputValidations
  /\ \A k \in 1..Len(calls) : calls[k].op = "validate" => calls[k].what # <<"inB">>

\* the second turn runs for B, whose input guardrail was not invoked
C15_Witness ==
  /\ pc = "generate"
  /\ currentTurn = 2
  /\ startingAgent = "A"
  /\ currentAgent = "B"
  /\ InputValidations = <<[op |-> "validate", what |-> <<"inA">>, threw |-> FALSE],
                          [op |-> "validate", what |-> <<"inRC">>, threw |-> FALSE]>>

(***************************************************************************)
(* C16: output guardrails are invoked only once a turn has been classified *)
(* as final output, as the last calls of the run: one validation for each  *)
(* own guardrail of the agent that produced the output followed by one for *)
(* each of the run configuration. A run that returns, or that an output    *)
(* guardrail stopped, made exactly these; a run that failed otherwise, and *)
(* any turn ending in a handoff or in run_again, made none.                *)
(***************************************************************************)
IsOutputValidation(c) == c.op = "validate" /\ c.what[1] \in OutputGuardrailNames

OutputValidations == SelectSeq(calls, IsOutputValidation)

ExpectedOutputGuardrails ==
  Agent[currentAgent].outputGuardrails \o RunConfig.outputGuardrails

ExpectedOutputValidations ==
  [i \in 1..Len(ExpectedOutputGuardrails) |->
     [op |-> "validate", what |-> <<ExpectedOutputGuardrails[i]>>, threw |-> FALSE]]

StoppedByOutputGuardrail ==
  outcome.type = "GuardrailTripwireTriggered" /\ outcome.guardrail \in OutputGuardrailNames

C16_OutputGuardrailsOnceAfterFinal ==
  /\ OutputValidations # <<>> =>
       /\ nextStep.type = "final_output"
       /\ pc \in {"outputGuardrails", "done"}
       /\ OutputValidations = ExpectedOutputValidations
       /\ SubSeq(calls, Len(calls) - Len(OutputValidations) + 1, Len(calls)) = OutputValidations
       /\ calls[Len(calls) - Len(OutputValidations)].op = "generateContent"
  /\ (outcome.type = "resolved" \/ StoppedByOutputGuardrail) =>
       /\ ExpectedOutputValidations # <<>>
       /\ OutputValidations = ExpectedOutputValidations
  /\ (pc = "done" /\ outcome.type # "resolved" /\ ~StoppedByOutputGuardrail) =>
       OutputValidations = <<>>
  /\ nextStep.type \in {"handoff", "run_again"} => OutputValidations = <<>>

\* the final output comes from B, reached by a handoff: B's own guardrail first
C16_Witness ==
  /\ pc = "done"
  /\ outcome.type = "resolved"
  /\ currentAgent = "B"
  /\ HandoffsPerformed = 1
  /\ OutputValidations = <<[op |-> "validate", what |-> <<"outB">>, threw |-> FALSE],
                           [op |-> "validate", what |-> <<"outRC">>, threw |-> FALSE]>>

(***************************************************************************)
(* C17: the tool calls of one response are executed one at a time in the   *)
(* order of the response. Each iteration makes its calls in the order      *)
(* onToolStart, execute, onToolEnd, all for the call at hand, stops at the *)
(* first of them that throws, and records the call before the next call's  *)
(* onToolStart; the records are in the order of the response.              *)
(***************************************************************************)
ToolOpRank(op) ==
  CASE op = "onToolStart" -> 1
    [] op = "execute" -> 2
    [] op = "onToolEnd" -> 3
    [] OTHER -> 0

C17_ToolCallsSequential ==
  /\ [][(pc = "tools" /\ toolIdx' = toolIdx + 1) =>
          LET c == processedResponse.toolCalls[toolIdx]
              added == SubSeq(calls', Len(calls) + 1, Len(calls'))
          IN /\ Len(calls') >= Len(calls)
             /\ SubSeq(calls', 1, Len(calls)) = calls
             /\ \A i \in 1..Len(added) :
                  /\ ToolOpRank(added[i].op) > 0
                  /\ added[i].what = c.name
                  /\ added[i].threw => i = Len(added)
                  /\ \A j \in (i + 1)..Len(added) :
                       ToolOpRank(added[i].op) < ToolOpRank(added[j].op)
             /\ (hooks = AllHooks /\ added # <<>> /\ ~added[Len(added)].threw) =>
                  Len(added) = 3
             /\ (hooks = {} /\ added # <<>>) => Len(added) = 1
             /\ Len(results') = Len(results) + 1
             /\ SubSeq(results', 1, Len(results)) = results
             /\ results'[Len(results')].name = c.name
             /\ results'[Len(results')].parameters = c.parameters]_vars
  /\ [][(pc = "tools" /\ toolIdx' = toolIdx) => calls' = calls]_vars
  /\ [](pc = "tools" =>
          /\ toolIdx = Len(results) + 1
          /\ \A k \in 1..Len(results) : results[k].name = processedResponse.toolCalls[k].name)

\* t1 then t2 in one response, with hooks: two complete blocks in that order
C17_Witness ==
  /\ pc = "tools"
  /\ toolIdx = 3
  /\ hooks = AllHooks
  /\ Len(calls) >= 6
  /\ SubSeq(calls, Len(calls) - 5, Len(calls)) =
       <<[op |-> "onToolStart", what |-> <<"t1">>, threw |-> FALSE],
         [op |-> "execute", what |-> <<"t1">>, threw |-> FALSE],
         [op |-> "onToolEnd", what |-> <<"t1">>, threw |-> FALSE],
         [op |-> "onToolStart", what |-> <<"t2">>, threw |-> FALSE],
         [op |-> "execute", what |-> <<"t2">>, threw |-> FALSE],
         [op |-> "onToolEnd", what |-> <<"t2">>, threw |-> FALSE]>>
  /\ results[1].name = <<"t1">>
  /\ results[2].name = <<"t2">>

(***************************************************************************)
(* C18: the toolCalls of a returned result are the ordinary tool calls the *)
(* run processed, over all turns and agents, in order: generatedItems only *)
(* grows at the end of a tool turn, by one record for each ordinary call   *)
(* of that turn's response in the order of the response, whether the tool  *)
(* ran, failed or was not found; the records of tools that ran match the   *)
(* execute calls made; the result carries all of them and no handoff       *)
(* invocation, with the final text of the last turn as finalOutput.        *)
(***************************************************************************)
OrdinaryNames(r) ==
  LET names == RequestedNames(r)
      keep == {i \in 1..Len(names) : ~HasHandoffPrefix(names[i])}
      RECURSIVE pick(_)
      pick(i) == IF i > Len(names) THEN <<>>
                 ELSE (IF i \in keep THEN <<names[i]>> ELSE <<>>) \o pick(i + 1)
  IN pick(1)

NamesOf(items) == [i \in 1..Len(items) |-> items[i].name]

IsExecuteCall(c) == c.op = "execute"

ExecuteWasCalled(item) ==
  /\ ~IsNotFoundItem(item)
  /\ item.result # [error |-> TRUE, message |-> <<"onToolStart failed">>]

C18_ToolCallsOfResult ==
  /\ [][generatedItems' # generatedItems =>
          /\ pc = "tools" /\ pc' = "loop"
          /\ generatedItems' = generatedItems \o results
          /\ NamesOf(results) = OrdinaryNames(modelResponse)
          /\ \A k \in 1..Len(results) : "result" \in DOMAIN results[k]]_vars
  /\ [][(pc = "tools" /\ pc' # "tools") => generatedItems' = generatedItems \o results]_vars
  /\ [](LET made == SelectSeq(calls, IsExecuteCall)
        IN NamesOf(SelectSeq(generatedItems \o results, ExecuteWasCalled))
             = [i \in 1..Len(made) |-> made[i].what])
  /\ [](outcome.type = "resolved" =>
          /\ outcome.result.toolCalls = generatedItems
          /\ \A k \in 1..Len(outcome.result.toolCalls) :
               ~HasHandoffPrefix(outcome.result.toolCalls[k].name)
          /\ outcome.result.finalOutput = nextStep.output
          /\ HandoffsPerformed = 0 => outcome.result.handoffPerformed = FALSE)

\* turn 1 requests one tool, turn 2 answers with text only
C18_Witness ==
  /\ pc = "done"
  /\ outcome.type = "resolved"
  /\ TurnsRun = 2
  /\ modelResponse = PartList(<<TextPart(<<"x">>)>>)
  /\ Len(outcome.result.toolCalls) = 1
  /\ outcome.result.toolCalls[1].name = <<"t1">>
  /\ outcome.result.handoffPerformed = FALSE
  /\ outcome.result.finalOutput = <<"x">>

(***************************************************************************)
(* C19: returnItems grows in two ways only: a turn that hands off appends  *)
(* one handoff record with the name of the target agent and the reason the *)
(* model stated, and a tool turn appends, in order, the records of its     *)
(* calls whose tool has showInThread set. The returned result carries      *)
(* exactly these; a call of a tool without showInThread and a call of a    *)
(* tool that was not found are never among them.                           *)
(***************************************************************************)
StatedReason(r) ==
  LET fcs == SelectSeq(r.parts, IsFunctionCallPart)
      i == CHOOSE j \in 1..Len(fcs) :
             /\ HasHandoffPrefix(fcs[j].name)
             /\ \A k \in 1..(j - 1) : ~HasHandoffPrefix(fcs[k].name)
  IN fcs[i].args.reason

ToolIsShown(a, n) ==
  \E j \in 1..Len(Agent[a].tools) :
    /\ Agent[a].tools[j].name = n
    /\ Agent[a].tools[j].showInThread
    /\ \A k \in 1..(j - 1) : Agent[a].tools[k].name # n

RECURSIVE ShownRecords(_, _)
ShownRecords(a, items) ==
  IF items = <<>> THEN <<>>
  ELSE (IF ToolIsShown(a, Head(items).name) THEN <<Head(items)>> ELSE <<>>)
       \o ShownRecords(a, Tail(items))

IsShownToolRecord(item) ==
  /\ "name" \in DOMAIN item
  /\ item.showInThread = TRUE
  /\ ~IsNotFoundItem(item)

C19_ReturnItemsOfResult ==
  /\ [][(modelResponse' # modelResponse /\ nextStep'.type = "handoff" /\ pc' = "loop") =>
          returnItems' = Append(returnItems,
            [role |-> "model",
             parts |-> <<[functionCall |->
                            [name |-> <<"handoff">>,
                             args |-> [agentName |-> Agent[currentAgent'].name,
                                       reason |-> StatedReason(modelResponse')]]]>>])]_vars
  /\ [][(pc = "tools" /\ pc' = "loop") =>
          returnItems' = returnItems \o ShownRecords(currentAgent, results)]_vars
  /\ [][returnItems' # returnItems =>
          \/ modelResponse' # modelResponse /\ nextStep'.type = "handoff" /\ pc' = "loop"
          \/ pc = "tools" /\ pc' = "loop"]_vars
  /\ [](\A k \in 1..Len(returnItems) :
          IsHandoffRecord(returnItems[k]) \/ IsShownToolRecord(returnItems[k]))
  /\ [](outcome.type = "resolved" => outcome.result.returnItems = returnItems)

\* t1 is shown in the thread, t2 is not
C19_Witness ==
  /\ pc = "done"
  /\ outcome.type = "resolved"
  /\ NamesOf(generatedItems) = <<(<<"t1">>), (<<"t2">>)>>
  /\ Len(outcome.result.returnItems) = 1
  /\ outcome.result.returnItems[1] = generatedItems[1]

(***************************************************************************)
(* C20: in a returned result, handoffPerformed is true and handoffAgent is *)
(* present exactly when the run performed at least one handoff.            *)
(***************************************************************************)
C20_HandoffFlagIffHandoff ==
  outcome.type = "resolved" =>
    ((outcome.result.handoffPerformed /\ "handoffAgent" \in DOMAIN outcome.result)
       <=> HandoffsPerformed >= 1)

(***************************************************************************)
(* C21: the caller's input is never changed. The list the run works on     *)
(* keeps the elements of the caller's list in their order through every    *)
(* turn, tool call and handoff, however the run ends; the injected         *)
(* messages and the rebuilt functionCall / functionResponse messages are   *)
(* only in the sequence built for the model call of a turn.                *)
(***************************************************************************)
C21_InputNeverMutated ==
  /\ [][input' = input]_vars
  /\ [](input.kind = "list" => originalInput = input.value)
  /\ [](pc = "generate" =>
          /\ Len(request.contents) = Len(Agent[currentAgent].injectMessages)
                                     + Len(input.value) + 2 * Len(generatedItems)
          /\ Len(originalInput) = Len(input.value))

\* a run of A with one tool call: the prompt of turn 2 has five messages
C21_Witness ==
  /\ pc = "done"
  /\ outcome.type = "resolved"
  /\ startingAgent = "A"
  /\ Len(generatedItems) = 1
  /\ Len(request.contents) = 5
  /\ originalInput = input.value
  /\ Len(originalInput) = 2

(***************************************************************************)
(* C22: a run of an agent with no tools and no handoffs, once its model    *)
(* call of turn 1 has answered and with no guardrail tripped, ends on turn *)
(* 1: it is in its output guardrails or has returned, and the result has   *)
(* handoffPerformed = false and no tool calls. As first stated this is for *)
(* every model response; it holds for the responses that contain no        *)
(* function call.                                                          *)
(***************************************************************************)
NoToolsNoHandoffs(a) == Agent[a].tools = <<>> /\ Agent[a].handoffs = <<>>

NoGuardrailTripped ==
  TrippedGuardrails(InputGuardrailNames \cup OutputGuardrailNames) = {}

\* the model call of turn 1 has answered and no later one has been made
FirstResponseArrived == modelResponse.present /\ GenerateCalls(calls) = 1

EndsOnTurnOne ==
  /\ currentTurn = 1
  /\ pc \in {"outputGuardrails", "done"}
  /\ pc = "done" =>
       /\ outcome.type = "resolved"
       /\ outcome.result.handoffPerformed = FALSE
       /\ outcome.result.toolCalls = <<>>

\* the statement for every response: refuted by a response that calls a function
C22_EveryResponseEndsOnTurnOne ==
  (NoToolsNoHandoffs(startingAgent) /\ FirstResponseArrived /\ NoGuardrailTripped)
    => EndsOnTurnOne

\* C22, amended: for every response that contains no function call
C22_ResponseWithoutCallEndsOnTurnOne ==
  (/\ NoToolsNoHandoffs(startingAgent)
   /\ FirstResponseArrived
   /\ RequestedNames(modelResponse) = <<>>
   /\ NoGuardrailTripped)
    => EndsOnTurnOne

C22_Witness ==
  /\ pc = "done"
  /\ startingAgent = "C"
  /\ currentTurn = 1
  /\ modelResponse = PartList(<<TextPart(<<"x">>), TextPart(<<"x">>)>>)
  /\ outcome.type = "resolved"
  /\ outcome.result.toolCalls = <<>>
  /\ outcome.result.handoffPerformed = FALSE

(***************************************************************************)
(* C23: a handoff whose filter evaluates to false for the working input is *)
(* not in the tools offered to the model on that turn, and is never        *)
(* performed.                                                              *)
(***************************************************************************)
FilteredOut(a) ==
  {Agent[a].handoffs[i] : i \in {j \in 1..Len(Agent[a].handoffs) :
                                    Agent[a].handoffFilters[j] = "false"}}

OffersHandoffTo(tools, b) ==
  \E k \in 1..Len(tools) : tools[k] = <<"handoff_to_">> \o Agent[b].name

C23_FilteredHandoffNotOffered ==
  /\ pc = "generate" =>
       \A b \in FilteredOut(currentAgent) : ~OffersHandoffTo(request.tools, b)
  /\ (pc = "loop" /\ nextStep.type = "handoff" /\ currentTurn = 1) =>
       nextStep.newAgent \notin FilteredOut(startingAgent)

(***************************************************************************)
(* C24: a failure while a turn is processed is never returned as a result. *)
(* A model response that is not a list of parts makes run() reject with    *)
(* the generic run error, and no returned result has the placeholder text  *)
(* of a processing error as its finalOutput.                               *)
(***************************************************************************)
C24_FailureNeverResolves ==
  /\ (modelResponse.present /\ modelResponse.kind # "list") =>
       (pc = "done" /\ outcome.type = "Error")
  /\ outcome.type = "resolved" =>
       outcome.result.finalOutput # <<"Error processing model response">>


(***************************************************************************)
(* C25: two run() calls in flight at once, made with the same agent and    *)
(* the same input list, do not affect each other. A step of the executing  *)
(* call leaves the turn counter, active agent, generatedItems, returnItems *)
(* and outcome of the suspended call as they were, and a call resumes with *)
(* exactly the values it was suspended with.                               *)
(***************************************************************************)
RunState(l) ==
  [currentTurn |-> l.currentTurn, currentAgent |-> l.currentAgent,
   generatedItems |-> l.generatedItems, returnItems |-> l.returnItems,
   outcome |-> l.outcome]

RunRejected == outcome.type \notin {"none", "resolved"}

C26_ContextNeverWritten ==
  /\ context.messages = CallerContext.messages
  /\ context.originalQuery = CallerContext.originalQuery
  /\ context.visitedNodes = CallerContext.visitedNodes
  /\ context.state = CallerContext.state
  /\ outcome.type = "resolved" => outcome.result.context = CallerContext
  /\ RunRejected => /\ context = CallerContext
                    /\ input \in Inputs
                    /\ originalInput = WrapInput(input)

C26_Witness ==
  /\ outcome.type = "resolved"
  /\ outcome.result.context = CallerContext
  /\ \E i \in 1..Len(calls) : calls[i].op = "execute"
  /\ \E i \in 1..Len(calls) : calls[i].op = "validate"


(***************************************************************************)
(* C27: on every turn the messages sent to the model are exactly the       *)
(* active agent's injectMessages, then the caller's history in its         *)
(* original order, then for each tool call executed so far, in execution   *)
(* order, a model functionCall message directly followed by a user         *)
(* functionResponse message with the same id and the call's recorded       *)
(* result.                                                                 *)
(***************************************************************************)
PromptHead == Agent[currentAgent].injectMessages \o WrapInput(input)

IsCallMessage(m, item) ==
  /\ m.role = "model"
  /\ Len(m.parts) = 1
  /\ DOMAIN m.parts[1] = {"functionCall"}
  /\ m.parts[1].functionCall.name = item.name
  /\ m.parts[1].functionCall.args = item.parameters

IsResponseMessage(m, call, item) ==
  /\ m.role = "user"
  /\ Len(m.parts) = 1
  /\ DOMAIN m.parts[1] = {"functionResponse"}
  /\ m.parts[1].functionResponse.id = call.parts[1].functionCall.id
  /\ m.parts[1].functionResponse.name = item.name
  /\ m.parts[1].functionResponse.response = [name |-> item.name, content |-> item.result]

C27_PromptIsInjectHistoryPairs ==
  pc = "generate" =>
    /\ Len(request.contents) = Len(PromptHead) + 2 * Len(generatedItems)
    /\ SubSeq(request.contents, 1, Len(PromptHead)) = PromptHead
    /\ \A i \in 1..Len(generatedItems) :
         /\ IsCallMessage(request.contents[Len(PromptHead) + 2 * i - 1], generatedItems[i])
         /\ IsResponseMessage(request.contents[Len(PromptHead) + 2 * i],
                              request.contents[Len(PromptHead) + 2 * i - 1],
                              generatedItems[i])

C27_Witness ==
  /\ pc = "generate"
  /\ currentAgent = "A"
  /\ currentTurn = 2
  /\ Len(generatedItems) = 2
  /\ generatedItems[1].name = <<"t2">>
  /\ generatedItems[2].name = <<"t1">>
  /\ Len(request.contents) = Len(PromptHead) + 4
  /\ request.contents[Len(PromptHead) + 1].parts[1].functionCall.name = <<"t2">>
  /\ request.contents[Len(PromptHead) + 4].parts[1].functionResponse.name = <<"t1">>


(***************************************************************************)
(* C28: a tool is looked up in the catalog of the active agent only. After *)
(* a handoff from agent a to agent b, a call naming a tool that a owns and *)
(* b does not is answered with "Tool <name> not found", and a's tool is    *)
(* not executed: no hook and no execute call is made for it.               *)
(***************************************************************************)
WasActive(a) == \E i \in 1..Len(calls) : calls[i] = GenerateCallOf(a)

OnlyFormerOwns(n) ==
  /\ ~OwnsTool(currentAgent, n)
  /\ \E a \in AgentIds \ {currentAgent} : WasActive(a) /\ OwnsTool(a, n)

C28_LookupInActiveCatalogOnly ==
  [][(/\ pc = "tools"
      /\ toolIdx' = toolIdx + 1
      /\ nextStep.type = "handoff"
      /\ OnlyFormerOwns(processedResponse.toolCalls[toolIdx].name)) =>
        /\ Len(results') = Len(results) + 1
        /\ results'[Len(results')].name = processedResponse.toolCalls[toolIdx].name
        /\ results'[Len(results')].result.error
        /\ results'[Len(results')].result.message =
             <<"Tool ">> \o processedResponse.toolCalls[toolIdx].name \o <<" not found">>
        /\ calls' = calls]_vars

C28_Witness ==
  /\ pc = "tools"
  /\ currentAgent = "B"
  /\ nextStep = [type |-> "handoff", newAgent |-> "B"]
  /\ WasActive("A")
  /\ Len(results) = 1
  /\ results[1].name = <<"t1">>
  /\ OnlyFormerOwns(<<"t1">>)
  /\ results[1].result = [error |-> TRUE, message |-> <<"Tool ", "t1", " not found">>]
  /\ ~\E i \in 1..Len(calls) : calls[i].op = "execute"


(***************************************************************************)
(* C29: the filter of a handoff never vetoes a handoff the model chose.    *)
(* When the response invokes the synthetic handoff tool of a target that   *)
(* is registered with the active agent, the handoff is performed whether   *)
(* the handoff has no filter, a filter that yields true or a filter that   *)
(* yields false.                                                           *)
(***************************************************************************)
FilterOf(a, b) ==
  LET hs == Agent[a].handoffs
  IN Agent[a].handoffFilters[CHOOSE j \in 1..Len(hs) : hs[j] = b]

TextFragments(r) == SelectSeq(r.parts, LAMBDA p : p.kind = "text")

AllText(r) == Flatten([i \in 1..Len(TextFragments(r)) |-> TextFragments(r)[i].text])

AnsweredWithoutCall ==
  /\ modelResponse.present
  /\ modelResponse.kind = "list"
  /\ \A i \in 1..Len(modelResponse.parts) : modelResponse.parts[i].kind = "text"

IsBlank(str) == \A i \in 1..Len(str) : str[i] = " "

C30_FinalOutputIsAllText ==
  AnsweredWithoutCall =>
    /\ nextStep.type = "final_output"
    /\ nextStep.output = AllText(modelResponse)
    /\ outcome.type = "resolved" => outcome.result.finalOutput = AllText(modelResponse)

(***************************************************************************)
(* C30, amended: a response that contains no function call ends the run's  *)
(* turn as final; finalOutput is the concatenation, in response order, of  *)
(* all text fragments of the response when that concatenation has a        *)
(* character other than white space, and the empty string otherwise.       *)
(***************************************************************************)
C30_FinalOutputIsAllTextUnlessBlank ==
  AnsweredWithoutCall =>
    LET expected == IF IsBlank(AllText(modelResponse)) THEN <<>> ELSE AllText(modelResponse)
    IN /\ nextStep.type = "final_output"
       /\ nextStep.output = expected
       /\ outcome.type = "resolved" => outcome.result.finalOutput = expected

C30_Witness ==
  /\ AnsweredWithoutCall
  /\ Len(modelResponse.parts) = 2
  /\ AllText(modelResponse) = <<" ", "x">>
  /\ outcome.type = "resolved"
  /\ outcome.result.finalOutput = <<" ", "x">>


(***************************************************************************)
(* C31: within one run generatedItems and returnItems only grow at the     *)
(* end. Every step, a handoff included, leaves the former value of each as *)
(* a prefix of the new one: no entry is removed, reordered or rewritten.   *)
(***************************************************************************)
IsPrefixOf(s, t) == Len(s) <= Len(t) /\ SubSeq(t, 1, Len(s)) = s

C31_AccumulatorsAppendOnly ==
  [][/\ IsPrefixOf(generatedItems, generatedItems')
     /\ IsPrefixOf(returnItems, returnItems')]_vars

C31_Witness ==
  /\ pc = "loop"
  /\ currentTurn = 2
  /\ startingAgent = "A"
  /\ currentAgent = "B"
  /\ nextStep.type = "handoff"
  /\ Len(generatedItems) = 1
  /\ generatedItems[1].name = <<"t1">>
  /\ Len(returnItems) = 2
  /\ returnItems[1] = generatedItems[1]
  /\ returnItems[2] = HandoffRecord(processedResponse.handoffAgent)


(***************************************************************************)
(* C32: an exception thrown by the onToolStart or the onToolEnd hook never *)
(* aborts the run. It is recorded as the {error: true, message} result of  *)
(* the tool call and the loop over the calls goes on. When onToolStart     *)
(* throws, execute is not invoked for the call; when onToolEnd throws,     *)
(* execute has returned and its value is replaced by the error result.     *)
(***************************************************************************)
NewCalls(before, after) == SubSeq(after, Len(before) + 1, Len(after))

HookThrew(op, before, after) ==
  /\ Len(after) > Len(before)
  /\ after[Len(after)].op = op
  /\ after[Len(after)].threw

RecordedAsError(toolCall, item, msg) ==
  /\ item.name = toolCall.name
  /\ item.parameters = toolCall.parameters
  /\ item.result = [error |-> TRUE, message |-> msg]

C32_ToolHookExceptionRecovers ==
  /\ [][(pc = "tools" /\ HookThrew("onToolStart", calls, calls')) =>
          /\ pc' = "tools"
          /\ outcome' = NoOutcome
          /\ toolIdx' = toolIdx + 1
          /\ results' = Append(results, results'[Len(results')])
          /\ RecordedAsError(processedResponse.toolCalls[toolIdx], results'[Len(results')],
                             <<"onToolStart failed">>)
          /\ \A k \in 1..Len(NewCalls(calls, calls')) :
               NewCalls(calls, calls')[k].op # "execute"]_vars
  /\ [][(pc = "tools" /\ HookThrew("onToolEnd", calls, calls')) =>
          /\ pc' = "tools"
          /\ outcome' = NoOutcome
          /\ toolIdx' = toolIdx + 1
          /\ results' = Append(results, results'[Len(results')])
          /\ RecordedAsError(processedResponse.toolCalls[toolIdx], results'[Len(results')],
                             <<"onToolEnd failed">>)
          /\ \E k \in 1..Len(NewCalls(calls, calls')) :
               NewCalls(calls, calls')[k] =
                 [op |-> "execute", what |-> processedResponse.toolCalls[toolIdx].name,
                  threw |-> FALSE]]_vars
  /\ [][(pc = "tools" /\ pc' # "tools") =>
          /\ pc' = "loop"
          /\ nextStep'.type = "run_again"
          /\ outcome' = NoOutcome]_vars

C32_Witness ==
  /\ outcome.type = "resolved"
  /\ Len(generatedItems) = 2
  /\ generatedItems[1].result = [error |-> TRUE, message |-> <<"onToolEnd failed">>]
  /\ generatedItems[2].result = OkResult(generatedItems[2].name)
  /\ \E i \in 1..Len(calls) : calls[i].op = "onToolEnd" /\ calls[i].threw


(***************************************************************************)
(* C33: with maxTurns <= 0 run() rejects with MaxTurnsExceeded and no      *)
(* turn is started: no input guardrail is validated, no hook is called and *)
(* no content-generation call is made.                                     *)
(***************************************************************************)
C33_NoTurnBudgetNoCalls ==
  maxTurns <= 0 =>
    /\ pc \in {"loop", "done"}
    /\ currentTurn = 0
    /\ calls = <<>>
    /\ guardrailPromises = <<>>
    /\ ~request.present
    /\ ~modelResponse.present
    /\ pc = "done" => outcome = MaxTurnsExceeded(maxTurns)

C33_Witness ==
  /\ pc = "done"
  /\ maxTurns = 0
  /\ startingAgent = "A"
  /\ hooks = AllHooks
  /\ InputGuardrailsOf(startingAgent) # <<>>
  /\ outcome = MaxTurnsExceeded(0)
  /\ calls = <<>>


(***************************************************************************)
(* C34: a function call whose name begins with "handoff_to_" is always     *)
(* taken as a handoff and never executed as a tool, also when the active   *)
(* agent owns a tool of exactly that name. The turn of such a response     *)
(* never enters the tool phase; when the rest of the first such name is a  *)
(* handoff target of the active agent the handoff is performed, and when   *)
(* it is not, run() rejects with the wrapped error: no tool-not-found      *)
(* result is recorded for it.                                              *)
(***************************************************************************)
IsToolPhaseCall(c) == c.op \in {"onToolStart", "execute", "onToolEnd"}

C34_HandoffPrefixNeverATool ==
  /\ [](\A i \in 1..Len(calls) : IsToolPhaseCall(calls[i]) => ~HasHandoffPrefix(calls[i].what))
  /\ [](\A i \in 1..Len(generatedItems \o results) :
           ~HasHandoffPrefix((generatedItems \o results)[i].name))
  /\ [][(modelResponse' # modelResponse /\ PrefixedNames(modelResponse') # <<>>) =>
          /\ pc' # "tools"
          /\ generatedItems' = generatedItems
          /\ IF IsSyntheticHandoffTool(PrefixedNames(modelResponse')[1], currentAgent)
             THEN /\ nextStep'.type = "handoff"
                  /\ outcome' = NoOutcome
             ELSE /\ pc' = "done"
                  /\ outcome'.type = "Error"
                  /\ currentAgent' = currentAgent]_vars

C34_Witness ==
  /\ pc = "done"
  /\ currentAgent = "A"
  /\ OwnsTool("A", <<"handoff_to_", "A">>)
  /\ PrefixedNames(modelResponse) = <<<<"handoff_to_", "A">>>>
  /\ ~IsSyntheticHandoffTool(<<"handoff_to_", "A">>, "A")
  /\ outcome.type = "Error"
  /\ generatedItems = <<>>
  /\ \A i \in 1..Len(calls) : ~IsToolPhaseCall(calls[i])


(***************************************************************************)
(* C35: when one response carries several handoff invocations, only the    *)
(* first in the order of the response is resolved and performed. The turn  *)
(* makes its target the active agent and appends exactly one handoff       *)
(* record, for that target, to returnItems; the other invocations add no   *)
(* record, no generated item and no call.                                  *)
(***************************************************************************)
SeveralHandoffs(r) == Len(PrefixedNames(r)) >= 2

C35_OnlyFirstHandoffPerformed ==
  [][(/\ modelResponse' # modelResponse
      /\ SeveralHandoffs(modelResponse')
      /\ IsSyntheticHandoffTool(PrefixedNames(modelResponse')[1], currentAgent)) =>
        /\ pc' = "loop"
        /\ nextStep'.type = "handoff"
        /\ <<"handoff_to_">> \o Agent[currentAgent'].name = PrefixedNames(modelResponse')[1]
        /\ nextStep'.newAgent = currentAgent'
        /\ Len(returnItems') = Len(returnItems) + 1
        /\ SubSeq(returnItems', 1, Len(returnItems)) = returnItems
        /\ IsHandoffRecord(returnItems'[Len(returnItems')])
        /\ returnItems'[Len(returnItems')].parts[1].functionCall.args.agentName =
             Agent[currentAgent'].name
        /\ generatedItems' = generatedItems
        /\ calls' = Append(calls, GenerateCallOf(currentAgent))]_vars

C35_Witness ==
  /\ pc = "loop"
  /\ startingAgent = "A"
  /\ currentTurn = 1
  /\ PrefixedNames(modelResponse) = <<<<"handoff_to_", "B">>, <<"handoff_to_", "C">>>>
  /\ currentAgent = "B"
  /\ Len(returnItems) = 1
  /\ returnItems[1].parts[1].functionCall.args.agentName = <<"B">>


(***************************************************************************)
(* C36: the text of a response that also carries a tool call or a handoff  *)
(* is dropped. Such a turn never yields a final output; what it adds to    *)
(* generatedItems and returnItems are tool records and handoff records     *)
(* without text; the prompt of a later turn adds only functionCall and     *)
(* functionResponse parts to the injected messages and the caller's        *)
(* history; and the finalOutput of a returned result is taken from the     *)
(* response of the final turn alone.                                       *)
(***************************************************************************)
HasTextAndCall(r) ==
  /\ RequestedNames(r) # <<>>
  /\ \E i \in 1..Len(r.parts) : r.parts[i].kind = "text" /\ r.parts[i].text # <<>>

IsTextFreeItem(item) ==
  \/ /\ DOMAIN item = {"name", "parameters", "result", "showInThread"}
     /\ \/ item.result = OkResult(item.name)
        \/ DOMAIN item.result = {"error", "message"} /\ item.result.error
  \/ /\ DOMAIN item = {"role", "parts"}
     /\ Len(item.parts) = 1
     /\ DOMAIN item.parts[1] = {"functionCall"}
     /\ DOMAIN item.parts[1].functionCall.args = {"agentName", "reason"}

IsTextFreeMessage(m) ==
  \A k \in 1..Len(m.parts) : DOMAIN m.parts[k] \in {{"functionCall"}, {"functionResponse"}}

TextOfFinalTurn ==
  IF IsBlank(AllText(modelResponse)) THEN <<>> ELSE AllText(modelResponse)

C36_TextOfEarlierTurnsDropped ==
  /\ [][(modelResponse' # modelResponse /\ HasTextAndCall(modelResponse')) =>
          /\ nextStep'.type # "final_output"
          /\ outcome'.type # "resolved"
          /\ generatedItems' = generatedItems]_vars
  /\ [](\A i \in 1..Len(generatedItems \o results \o returnItems) :
           IsTextFreeItem((generatedItems \o results \o returnItems)[i]))
  /\ [](pc = "generate" =>
          \A j \in (Len(PromptHead) + 1)..Len(request.contents) :
             IsTextFreeMessage(request.contents[j]))
  /\ [](outcome.type = "resolved" =>
          /\ modelResponse.kind = "list" => outcome.result.finalOutput = TextOfFinalTurn
          /\ \A i \in 1..Len(outcome.result.toolCalls) :
               IsTextFreeItem(outcome.result.toolCalls[i])
          /\ \A i \in 1..Len(outcome.result.returnItems) :
               IsTextFreeItem(outcome.result.returnItems[i]))

C36_Witness ==
  /\ pc = "loop"
  /\ currentTurn = 1
  /\ nextStep.type = "run_again"
  /\ HasTextAndCall(modelResponse)
  /\ processedResponse.finalOutput = <<"x">>
  /\ Len(generatedItems) = 1
  /\ Len(returnItems) = 1
  /\ returnItems[1] = generatedItems[1]


(***************************************************************************)
(* C37: a response with no function call and no text, that is an empty     *)
(* list of parts or text of white space only, makes the turn final with    *)
(* the empty string as output. No further turn is run and the run does not *)
(* fail: the output guardrails are started for that output, and unless one *)
(* of them trips run() resolves with finalOutput = "".                     *)
(***************************************************************************)
IsEmptyAnswer(r) ==
  /\ r.present
  /\ r.kind = "list"
  /\ \A i \in 1..Len(r.parts) : r.parts[i].kind = "text" /\ IsBlank(r.parts[i].text)

C37_EmptyAnswerIsFinal ==
  /\ [][(modelResponse' # modelResponse /\ IsEmptyAnswer(modelResponse')) =>
          /\ nextStep' = [type |-> "final_output", output |-> <<>>]
          /\ calls' = Append(calls, GenerateCallOf(currentAgent))
                      \o ValidateCalls(OutputGuardrailsOf(currentAgent))
          /\ IF OutputGuardrailsOf(currentAgent) # <<>>
             THEN pc' = "outputGuardrails" /\ outcome' = NoOutcome
             ELSE pc' = "done" /\ outcome'.type = "resolved"]_vars
  /\ [](IsEmptyAnswer(modelResponse) =>
          /\ pc \in {"outputGuardrails", "done"}
          /\ nextStep.type = "final_output"
          /\ outcome.type \in {"none", "resolved", "GuardrailTripwireTriggered"}
          /\ outcome.type = "resolved" => outcome.result.finalOutput = <<>>
          /\ outcome.type = "GuardrailTripwireTriggered" =>
               TrippedGuardrails(OutputGuardrailNames) # {})

C37_Witness ==
  /\ pc = "done"
  /\ IsEmptyAnswer(modelResponse)
  /\ modelResponse.parts = <<TextPart(<<" ">>), TextPart(<<" ">>)>>
  /\ outcome.type = "resolved"
  /\ outcome.result.finalOutput = <<>>
  /\ \E i \in 1..Len(calls) : calls[i].op = "validate" /\ calls[i].what = <<"outRC">>


(***************************************************************************)
(* C38: for every query submitted through the chat surface, processing     *)
(* eventually sets isQuerying back to false, whether Runner.run resolves   *)
(* or rejects, and also when the fallback content-generation call made     *)
(* after a Runner failure fails: the surface never stays in the querying   *)
(* state.                                                                  *)
(***************************************************************************)
C38_QueryingEventuallyCleared == isQuerying ~> ~isQuerying

====
